---- MODULE Spec2Model ----
(***************************************************************************)
(* Transaction reconciliation engine of src/18_reconcile.py, and the       *)
(* sliding-window RateLimiter of src/4_ratelimiter.py.                     *)
(*                                                                         *)
(* Python values are tagged records [t |-> type, v |-> payload]:           *)
(*   none   v = 0                                                          *)
(*   bool   v \in BOOLEAN                                                  *)
(*   int    v \in Int                                                      *)
(*   float  v = the value in thousandths (10.001 is 10001)                 *)
(*   str    v = the sequence of its characters                             *)
(*   other  v = the characters of str(value), for any other type           *)
(* A transaction (a Python dict) is a function from field names to values. *)
(***************************************************************************)
EXTENDS Integers, Sequences, FiniteSets, TLC

\* ------------------------------------------------------------------------
\* Bounds of the model
\* ------------------------------------------------------------------------
MaxLenA == 2
MaxLenB == 2

\* ------------------------------------------------------------------------
\* Python values
\* ------------------------------------------------------------------------
PyNone == [t |-> "none", v |-> 0]
PyBool(b) == [t |-> "bool", v |-> b]
PyInt(n) == [t |-> "int", v |-> n]
PyFloat(m) == [t |-> "float", v |-> m]
PyStr(s) == [t |-> "str", v |-> s]
PyOther(s) == [t |-> "other", v |-> s]

IsNumber(x) == x.t \in {"int", "float", "bool"}

\* the numeric value of a number, in thousandths (bool is a subclass of int)
NumMilli(x) ==
  CASE x.t = "int" -> x.v * 1000
    [] x.t = "float" -> x.v
    [] x.t = "bool" -> IF x.v THEN 1000 ELSE 0

\* Python ==/!= between two values
PyEq(x, y) ==
  IF IsNumber(x) /\ IsNumber(y) THEN NumMilli(x) = NumMilli(y)
  ELSE IF x.t = "str" /\ y.t = "str" THEN x.v = y.v
  ELSE IF x.t = "none" /\ y.t = "none" THEN TRUE
  ELSE IF x.t = "other" /\ y.t = "other" THEN x.v = y.v
  ELSE FALSE

\* ------------------------------------------------------------------------
\* Strings: str(), str.strip(), str.lower()
\* ------------------------------------------------------------------------
Digit(d) ==
  CASE d = 0 -> "0" [] d = 1 -> "1" [] d = 2 -> "2" [] d = 3 -> "3"
    [] d = 4 -> "4" [] d = 5 -> "5" [] d = 6 -> "6" [] d = 7 -> "7"
    [] d = 8 -> "8" [] d = 9 -> "9"

RECURSIVE NatStr(_)
NatStr(n) == IF n < 10 THEN <<Digit(n)>> ELSE NatStr(n \div 10) \o <<Digit(n % 10)>>

IntStr(n) == IF n < 0 THEN <<"-">> \o NatStr(0 - n) ELSE NatStr(n)

\* repr of a float given in thousandths: at least one fractional digit,
\* no trailing zeros (10000 is "10.0", 10010 is "10.01", 125 is "0.125")
FracStr(f) ==
  IF f % 100 = 0 THEN <<Digit(f \div 100)>>
  ELSE IF f % 10 = 0 THEN <<Digit(f \div 100), Digit((f \div 10) % 10)>>
  ELSE <<Digit(f \div 100), Digit((f \div 10) % 10), Digit(f % 10)>>

FloatStr(m) ==
  IF m < 0 THEN <<"-">> \o NatStr((0 - m) \div 1000) \o <<".">> \o FracStr((0 - m) % 1000)
  ELSE NatStr(m \div 1000) \o <<".">> \o FracStr(m % 1000)

\* str(value)
str(x) ==
  CASE x.t = "none" -> <<"N", "o", "n", "e">>
    [] x.t = "bool" -> IF x.v THEN <<"T", "r", "u", "e">> ELSE <<"F", "a", "l", "s", "e">>
    [] x.t = "int" -> IntStr(x.v)
    [] x.t = "float" -> FloatStr(x.v)
    [] x.t = "str" -> x.v
    [] x.t = "other" -> x.v

IsSpace(c) == c \in {" ", "\t", "\n"}

RECURSIVE lstrip(_)
lstrip(s) == IF s # <<>> /\ IsSpace(Head(s)) THEN lstrip(Tail(s)) ELSE s

RECURSIVE rstrip(_)
rstrip(s) ==
  IF s # <<>> /\ IsSpace(s[Len(s)]) THEN rstrip(SubSeq(s, 1, Len(s) - 1)) ELSE s

strip(s) == rstrip(lstrip(s))

LowerChar(c) ==
  CASE c = "A" -> "a" [] c = "B" -> "b" [] c = "C" -> "c" [] c = "D" -> "d"
    [] c = "E" -> "e" [] c = "F" -> "f" [] c = "G" -> "g" [] c = "H" -> "h"
    [] c = "I" -> "i" [] c = "J" -> "j" [] c = "K" -> "k" [] c = "L" -> "l"
    [] c = "M" -> "m" [] c = "N" -> "n" [] c = "O" -> "o" [] c = "P" -> "p"
    [] c = "Q" -> "q" [] c = "R" -> "r" [] c = "S" -> "s" [] c = "T" -> "t"
    [] c = "U" -> "u" [] c = "V" -> "v" [] c = "W" -> "w" [] c = "X" -> "x"
    [] c = "Y" -> "y" [] c = "Z" -> "z" [] OTHER -> c

lower(s) == [i \in 1..Len(s) |-> LowerChar(s[i])]

\* round(value, 2) of a non-negative float given in thousandths.  A value
\* ending in 5 thousandths is a tie only when the double is exact (x.125,
\* x.375, x.625, x.875), and Python then rounds half to even.
round2(m) ==
  LET q == m \div 10
      r == m % 10
  IN  IF r < 5 THEN q * 10
      ELSE IF r > 5 THEN (q + 1) * 10
      ELSE IF q % 2 = 0 THEN q * 10 ELSE (q + 1) * 10

\* ------------------------------------------------------------------------
\* ReconciliationSystem._normalize_value
\* ------------------------------------------------------------------------
\* variant: a number is returned as its text
normalize_value_text(value) ==
  CASE value.t = "none" -> PyStr(<<>>)
    [] value.t = "float" -> PyStr(str(PyFloat(round2(value.v))))
    [] value.t = "int" -> PyStr(str(value))
    [] value.t = "bool" -> value
    [] value.t = "str" -> PyStr(lower(strip(value.v)))
    [] value.t = "other" -> PyStr(str(value))

\* variant: None is returned as it is
normalize_value_keepnone(value) ==
  CASE value.t = "none" -> value
    [] value.t = "float" -> PyFloat(round2(value.v))
    [] value.t \in {"int", "bool"} -> value
    [] value.t = "str" -> PyStr(lower(strip(value.v)))
    [] value.t = "other" -> PyStr(str(value))

\* variant: floats are left unrounded
normalize_value_noround(value) ==
  CASE value.t = "none" -> PyStr(<<>>)
    [] value.t \in {"int", "bool", "float"} -> value
    [] value.t = "str" -> PyStr(lower(strip(value.v)))
    [] value.t = "other" -> PyStr(str(value))

normalize_value(value) ==
  CASE value.t = "none" -> PyStr(<<>>)
    [] value.t = "float" -> PyFloat(round2(value.v))
    [] value.t \in {"int", "bool"} -> value
    [] value.t = "str" -> PyStr(lower(strip(value.v)))
    [] value.t = "other" -> PyStr(str(value))

\* ------------------------------------------------------------------------
\* Generic helpers
\* ------------------------------------------------------------------------
\* dict.get(field, default)
Get(transaction, field, default) ==
  IF field \in DOMAIN transaction THEN transaction[field] ELSE default

Range(s) == {s[i] : i \in 1..Len(s)}

\* dict.values()
Values(d) == {d[k] : k \in DOMAIN d}

\* every order in which a Python set may be iterated
Orderings(S) ==
  {s \in [1..Cardinality(S) -> S] : \A i, j \in 1..Cardinality(S) : s[i] = s[j] => i = j}

SeqsUpTo(S, n) == UNION {[1..k -> S] : k \in 0..n}

\* ------------------------------------------------------------------------
\* The transactions the two underlying systems may hold
\* ------------------------------------------------------------------------
USD == <<"U", "S", "D">>
EUR == <<"E", "U", "R">>

RecordsA ==
  { [id |-> PyStr(<<"1">>), amount |-> PyFloat(10000), currency |-> PyStr(USD)],
    [id |-> PyStr(<<"1">>), amount |-> PyFloat(12000), currency |-> PyStr(USD)],
    [id |-> PyStr(<<"2">>), amount |-> PyInt(10)] }

RecordsB ==
  { [id |-> PyStr(<<"1">>), amount |-> PyFloat(10001), currency |-> PyStr(<<" ", "u", "s", "d">>)],
    [id |-> PyStr(<<"2">>), amount |-> PyFloat(10006), currency |-> PyNone],
    [id |-> PyStr(<<"3">>), amount |-> PyStr(<<"1", "0">>), currency |-> PyStr(EUR)] }

KeyFieldChoices == {<<>>, <<"id">>, <<"id", "currency">>}

\* the comparison_fields argument of reconcile: None, or a list
ComparisonFieldChoices ==
  { [given |-> FALSE, fields |-> <<>>],
    [given |-> TRUE, fields |-> <<>>],
    [given |-> TRUE, fields |-> <<"amount", "currency">>] }

START_DATE == "2024-01-01"
END_DATE == "2024-01-31"

\* ------------------------------------------------------------------------
\* Data sources.  rows are the records of the underlying system that lie in
\* the date range; fault says why the underlying system cannot be read.
\* ------------------------------------------------------------------------
Faults ==
  { [kind |-> "csv", fault |-> "missing_file"],
    [kind |-> "csv", fault |-> "malformed"],
    [kind |-> "json", fault |-> "malformed"],
    [kind |-> "db", fault |-> "unsupported_connection"],
    [kind |-> "api", fault |-> "http_error"] }

SourcesFor(name, records, maxlen) ==
  {[name |-> name, kind |-> "json", fault |-> "none", rows |-> r] : r \in SeqsUpTo(records, maxlen)}
  \cup {[name |-> name, kind |-> f.kind, fault |-> f.fault, rows |-> <<>>] : f \in Faults}
  \cup {[name |-> name, kind |-> "base", fault |-> "none", rows |-> <<>>]}

Returned(value) == [raised |-> FALSE, value |-> value]
Raised == [raised |-> TRUE, value |-> <<>>]

\* variant: an adapter lets the failure of its underlying system escape
get_transactions_raising(source) ==
  IF source.kind = "base" \/ source.fault # "none" THEN Raised ELSE Returned(source.rows)

\* DataSource.get_transactions of the base class and of the four adapters
get_transactions(source) ==
  CASE source.kind = "base" -> Raised
    [] source.kind = "csv" ->
         IF source.fault \in {"missing_file", "malformed"} THEN Returned(<<>>)
         ELSE Returned(source.rows)
    [] source.kind = "json" ->
         IF source.fault \in {"missing_file", "malformed"} THEN Returned(<<>>)
         ELSE Returned(source.rows)
    [] source.kind = "db" ->
         IF source.fault \in {"unsupported_connection"} THEN Returned(<<>>)
         ELSE Returned(source.rows)
    [] source.kind = "api" ->
         IF source.fault \in {"http_error"} THEN Returned(<<>>)
         ELSE Returned(source.rows)

\* ------------------------------------------------------------------------
\* ReconciliationSystem.generate_key
\* ------------------------------------------------------------------------
RECURSIVE join(_, _)
join(sep, parts) ==
  IF parts = <<>> THEN <<>>
  ELSE IF Len(parts) = 1 THEN parts[1]
  ELSE parts[1] \o sep \o join(sep, Tail(parts))

\* variant: the parts are joined with nothing between them
generate_key_concat(transaction, key_fields) ==
  LET key_parts == [i \in 1..Len(key_fields) |->
                      str(Get(transaction, key_fields[i], PyStr(<<>>)))]
  IN  join(<<>>, key_parts)

generate_key(transaction, key_fields) ==
  LET key_parts == [i \in 1..Len(key_fields) |->
                      str(Get(transaction, key_fields[i], PyStr(<<>>)))]
  IN  join(<<"|">>, key_parts)

\* variant: the first record of a key is kept
transactions_dict_first(transactions, key_fields) ==
  LET keys == {generate_key(transactions[i], key_fields) : i \in 1..Len(transactions)}
      first(k) == CHOOSE i \in 1..Len(transactions) :
                    /\ generate_key(transactions[i], key_fields) = k
                    /\ \A j \in 1..Len(transactions) :
                         generate_key(transactions[j], key_fields) = k => i <= j
  IN  [k \in keys |-> transactions[first(k)]]

\* {generate_key(tx): tx for tx in transactions}
transactions_dict(transactions, key_fields) ==
  LET keys == {generate_key(transactions[i], key_fields) : i \in 1..Len(transactions)}
      last(k) == CHOOSE i \in 1..Len(transactions) :
                   /\ generate_key(transactions[i], key_fields) = k
                   /\ \A j \in 1..Len(transactions) :
                        generate_key(transactions[j], key_fields) = k => j <= i
  IN  [k \in keys |-> transactions[last(k)]]

\* the three key sets of reconcile
keys_common(keys_a, keys_b) == keys_a \cap keys_b

keys_only_a(keys_a, keys_b) == keys_a \ keys_b

\* variant: keys_b is not reduced by keys_a
keys_only_b_all(keys_a, keys_b) == keys_b

keys_only_b(keys_a, keys_b) == keys_b \ keys_a

\* the fields compared when the caller names none
default_comparison_fields(transactions_a, transactions_b, key_fields) ==
  LET fields_a == IF transactions_a # <<>> THEN DOMAIN transactions_a[1] ELSE {}
      fields_b == IF transactions_b # <<>> THEN DOMAIN transactions_b[1] ELSE {}
  IN  (fields_a \cap fields_b) \ Range(key_fields)

\* variant: the values recorded are the normalized ones
RECURSIVE mismatch_fields_normalized(_, _, _)
mismatch_fields_normalized(tx_a, tx_b, fields) ==
  IF fields = <<>> THEN <<>>
  ELSE LET field == Head(fields)
           value_a == normalize_value(Get(tx_a, field, PyNone))
           value_b == normalize_value(Get(tx_b, field, PyNone))
       IN  (IF ~PyEq(value_a, value_b)
            THEN <<[field |-> field, value_a |-> value_a, value_b |-> value_b]>>
            ELSE <<>>)
           \o mismatch_fields_normalized(tx_a, tx_b, Tail(fields))

\* variant: the value of A is recorded on both sides
RECURSIVE mismatch_fields_same(_, _, _)
mismatch_fields_same(tx_a, tx_b, fields) ==
  IF fields = <<>> THEN <<>>
  ELSE LET field == Head(fields)
           value_a == Get(tx_a, field, PyNone)
           value_b == Get(tx_b, field, PyNone)
       IN  (IF ~PyEq(normalize_value(value_a), normalize_value(value_b))
            THEN <<[field |-> field, value_a |-> value_a, value_b |-> value_a]>>
            ELSE <<>>)
           \o mismatch_fields_same(tx_a, tx_b, Tail(fields))

\* the inner loop of reconcile over the comparison fields of one common key
RECURSIVE mismatch_fields(_, _, _)
mismatch_fields(tx_a, tx_b, fields) ==
  IF fields = <<>> THEN <<>>
  ELSE LET field == Head(fields)
           value_a == Get(tx_a, field, PyNone)
           value_b == Get(tx_b, field, PyNone)
       IN  (IF ~PyEq(normalize_value(value_a), normalize_value(value_b))
            THEN <<[field |-> field, value_a |-> value_a, value_b |-> value_b]>>
            ELSE <<>>)
           \o mismatch_fields(tx_a, tx_b, Tail(fields))

\* variant: the match entry is appended unconditionally
bucket_both(key, tx_a, tx_b, mismatch_list) ==
  [ matches |-> <<[key |-> key, transaction_a |-> tx_a, transaction_b |-> tx_b]>>,
    mismatches |->
      IF mismatch_list # <<>>
      THEN <<[key |-> key, transaction_a |-> tx_a, transaction_b |-> tx_b,
              mismatches |-> mismatch_list]>>
      ELSE <<>> ]

\* lines 545-557: a common key whose list of field mismatches is not empty
\* goes to mismatches, any other to matches
bucket(key, tx_a, tx_b, mismatch_list) ==
  IF mismatch_list # <<>>
  THEN [ matches |-> <<>>,
         mismatches |-> <<[key |-> key, transaction_a |-> tx_a, transaction_b |-> tx_b,
                           mismatches |-> mismatch_list]>> ]
  ELSE [ matches |-> <<[key |-> key, transaction_a |-> tx_a, transaction_b |-> tx_b]>>,
         mismatches |-> <<>> ]

\* list.append over the loop: what one key adds goes before what the later
\* keys add
appended(one, later) ==
  [matches |-> one.matches \o later.matches, mismatches |-> one.mismatches \o later.mismatches]

\* lines 524-557: the loop over keys_common, visited in the order `keys`
RECURSIVE compare_common(_, _, _, _)
compare_common(keys, dict_a, dict_b, fields) ==
  IF keys = <<>> THEN [matches |-> <<>>, mismatches |-> <<>>]
  ELSE appended(bucket(Head(keys), dict_a[Head(keys)], dict_b[Head(keys)],
                       mismatch_fields(dict_a[Head(keys)], dict_b[Head(keys)], fields)),
                compare_common(Tail(keys), dict_a, dict_b, fields))

\* variant: every common key is counted as a match
summary_of_common(txs_a, txs_b, matches, mismatches, only_in_a, only_in_b) ==
  [ total_a |-> Len(txs_a),
    total_b |-> Len(txs_b),
    matches |-> Len(matches) + Len(mismatches),
    mismatches |-> Len(mismatches),
    only_in_a |-> Len(only_in_a),
    only_in_b |-> Len(only_in_b) ]

\* lines 569-576
summary_of(txs_a, txs_b, matches, mismatches, only_in_a, only_in_b) ==
  [ total_a |-> Len(txs_a),
    total_b |-> Len(txs_b),
    matches |-> Len(matches),
    mismatches |-> Len(mismatches),
    only_in_a |-> Len(only_in_a),
    only_in_b |-> Len(only_in_b) ]

\* lines 563-582: the returned dict, with the locals it was built from
assemble(names, txs_a, txs_b, dict_a, dict_b, key_sets, fields, compared, only_in_a, only_in_b) ==
  [ locals |-> [ transactions_a_dict |-> dict_a,
                 transactions_b_dict |-> dict_b,
                 keys_common |-> key_sets.common,
                 keys_only_a |-> key_sets.only_a,
                 keys_only_b |-> key_sets.only_b,
                 comparison_fields |-> fields,
                 matches |-> compared.matches ],
    results |-> [ start_date |-> names.start_date,
                  end_date |-> names.end_date,
                  source_a |-> names.source_a,
                  source_b |-> names.source_b,
                  summary |-> summary_of(txs_a, txs_b, compared.matches, compared.mismatches,
                                         only_in_a, only_in_b),
                  mismatches |-> compared.mismatches,
                  only_in_a |-> only_in_a,
                  only_in_b |-> only_in_b ] ]

\* variant: the records of every key of the index are listed
only_in_all(dict, order) ==
  LET every == CHOOSE o \in Orderings(DOMAIN dict) : TRUE
  IN  [i \in 1..Len(every) |-> dict[every[i]]]

\* lines 559-561: the one-sided records, the keys visited in the given order
only_in(dict, order) == [i \in 1..Len(order) |-> dict[order[i]]]

\* lines 505-511
partition(keys_a, keys_b) ==
  [ common |-> keys_common(keys_a, keys_b),
    only_a |-> keys_only_a(keys_a, keys_b),
    only_b |-> keys_only_b(keys_a, keys_b) ]

\* variant: an empty list given by the caller is used as it is
field_lists_as_given(comparison_fields, txs_a, txs_b, key_fields) ==
  IF ~comparison_fields.given
  THEN Orderings(default_comparison_fields(txs_a, txs_b, key_fields))
  ELSE {comparison_fields.fields}

\* lines 517-521: the comparison fields of the run.  list(set) of the
\* default fields has an order the hash seed decides.
field_lists(comparison_fields, txs_a, txs_b, key_fields) ==
  IF ~comparison_fields.given \/ comparison_fields.fields = <<>>
  THEN Orderings(default_comparison_fields(txs_a, txs_b, key_fields))
  ELSE {comparison_fields.fields}

\* lines 523-582, for every order in which the three key sets may be iterated
outcomes(names, txs_a, txs_b, dict_a, dict_b, key_sets, lists) ==
  { assemble(names, txs_a, txs_b, dict_a, dict_b, key_sets, fields,
             compare_common(order_common, dict_a, dict_b, fields),
             only_in(dict_a, order_a), only_in(dict_b, order_b)) :
      order_common \in Orderings(key_sets.common), order_a \in Orderings(key_sets.only_a),
      order_b \in Orderings(key_sets.only_b), fields \in lists }

\* lines 501-582: everything reconcile does with the two fetched lists
indexed(names, txs_a, txs_b, dict_a, dict_b, key_fields, comparison_fields) ==
  outcomes(names, txs_a, txs_b, dict_a, dict_b, partition(DOMAIN dict_a, DOMAIN dict_b),
           field_lists(comparison_fields, txs_a, txs_b, key_fields))

reconciled(names, txs_a, txs_b, key_fields, comparison_fields) ==
  indexed(names, txs_a, txs_b, transactions_dict(txs_a, key_fields),
          transactions_dict(txs_b, key_fields), key_fields, comparison_fields)

NoSummary == summary_of(<<>>, <<>>, <<>>, <<>>, <<>>, <<>>)

NoResults ==
  [ start_date |-> "", end_date |-> "", source_a |-> "", source_b |-> "",
    summary |-> NoSummary, mismatches |-> <<>>, only_in_a |-> <<>>, only_in_b |-> <<>> ]

NoLocals ==
  [ transactions_a_dict |-> <<>>, transactions_b_dict |-> <<>>,
    keys_common |-> {}, keys_only_a |-> {}, keys_only_b |-> {},
    comparison_fields |-> <<>>, matches |-> <<>> ]

\* ------------------------------------------------------------------------
\* Reports.  A rendered report is kept as the structure its text spells out.
\* ------------------------------------------------------------------------
SHOW_FIRST == 10

IMPORTANT_FIELDS == <<"amount", "currency", "status", "type", "date">>

Min(a, b) == IF a < b THEN a ELSE b

\* a list slice list[:n]
FirstN(list, n) == SubSeq(list, 1, Min(Len(list), n))

RECURSIVE select_fields(_, _, _)
select_fields(transaction, fields, key_fields) ==
  IF fields = <<>> THEN <<>>
  ELSE (IF Head(fields) \in DOMAIN transaction /\ Head(fields) \notin Range(key_fields)
        THEN <<[field |-> Head(fields), value |-> str(transaction[Head(fields)])]>>
        ELSE <<>>)
       \o select_fields(transaction, Tail(fields), key_fields)

\* ReconciliationSystem._format_transaction: the field=value parts
format_transaction(transaction, key_fields) ==
  [i \in 1..Len(key_fields) |->
     [field |-> key_fields[i], value |-> str(Get(transaction, key_fields[i], PyStr(<<>>)))]]
  \o select_fields(transaction, IMPORTANT_FIELDS, key_fields)

header_of(results) ==
  [ start_date |-> results.start_date, end_date |-> results.end_date,
    source_a |-> results.source_a, source_b |-> results.source_b ]

\* variant: the line is printed from SHOW_FIRST entries on
more_notice_from_ten(list) ==
  IF Len(list) >= SHOW_FIRST THEN <<Len(list) - SHOW_FIRST>> ELSE <<>>

\* the "... and N more ..." lines printed after a list: none, or one with
\* its N
more_notice(list) == IF Len(list) > SHOW_FIRST THEN <<Len(list) - SHOW_FIRST>> ELSE <<>>

\* ReconciliationSystem._generate_text_report
generate_text_report(results, key_fields) ==
  [ kind |-> "text",
    header |-> header_of(results),
    summary |-> results.summary,
    mismatches |->
      [i \in 1..Len(FirstN(results.mismatches, SHOW_FIRST)) |->
         [ number |-> i,
           key |-> results.mismatches[i].key,
           fields |-> [j \in 1..Len(results.mismatches[i].mismatches) |->
                         [ field |-> results.mismatches[i].mismatches[j].field,
                           value_a |-> str(results.mismatches[i].mismatches[j].value_a),
                           value_b |-> str(results.mismatches[i].mismatches[j].value_b) ]] ]],
    more_mismatches |-> more_notice(results.mismatches),
    only_in_a |->
      [i \in 1..Len(FirstN(results.only_in_a, SHOW_FIRST)) |->
         [number |-> i, parts |-> format_transaction(results.only_in_a[i], key_fields)]],
    more_only_in_a |-> more_notice(results.only_in_a),
    only_in_b |->
      [i \in 1..Len(FirstN(results.only_in_b, SHOW_FIRST)) |->
         [number |-> i, parts |-> format_transaction(results.only_in_b[i], key_fields)]],
    more_only_in_b |-> more_notice(results.only_in_b) ]

\* the rows of mismatches_data in _generate_csv_report
RECURSIVE mismatches_data(_)
mismatches_data(mismatches) ==
  IF mismatches = <<>> THEN <<>>
  ELSE [j \in 1..Len(Head(mismatches).mismatches) |->
          [ key |-> Head(mismatches).key,
            field |-> Head(mismatches).mismatches[j].field,
            value_a |-> Head(mismatches).mismatches[j].value_a,
            value_b |-> Head(mismatches).mismatches[j].value_b ]]
       \o mismatches_data(Tail(mismatches))

\* ReconciliationSystem._generate_csv_report
generate_csv_report(results) ==
  [ kind |-> "csv",
    header |-> header_of(results),
    summary |-> results.summary,
    mismatches |-> mismatches_data(results.mismatches),
    only_in_a |-> results.only_in_a,
    only_in_b |-> results.only_in_b ]

\* json.dumps(results, indent=2).  The document is kept as the tree of its
\* objects and arrays; every scalar in it is the text json.dumps writes.
\* The results rendered here hold None, bool, int, float and str values.
RECURSIVE json_escape(_)
json_escape(s) ==
  IF s = <<>> THEN <<>>
  ELSE (CASE Head(s) = "\"" -> <<"\\", "\"">>
          [] Head(s) = "\\" -> <<"\\", "\\">>
          [] Head(s) = "\n" -> <<"\\", "n">>
          [] Head(s) = "\t" -> <<"\\", "t">>
          [] OTHER -> <<Head(s)>>)
       \o json_escape(Tail(s))

json_string(s) == <<"\"">> \o json_escape(s) \o <<"\"">>

\* variant: a str is written between quotes as it is
json_scalar_unescaped(x) ==
  CASE x.t = "none" -> <<"n", "u", "l", "l">>
    [] x.t = "bool" -> IF x.v THEN <<"t", "r", "u", "e">> ELSE <<"f", "a", "l", "s", "e">>
    [] x.t = "int" -> IntStr(x.v)
    [] x.t = "float" -> FloatStr(x.v)
    [] x.t = "str" -> <<"\"">> \o x.v \o <<"\"">>

json_scalar(x) ==
  CASE x.t = "none" -> <<"n", "u", "l", "l">>
    [] x.t = "bool" -> IF x.v THEN <<"t", "r", "u", "e">> ELSE <<"f", "a", "l", "s", "e">>
    [] x.t = "int" -> IntStr(x.v)
    [] x.t = "float" -> FloatStr(x.v)
    [] x.t = "str" -> json_string(x.v)

json_object(transaction) == [f \in DOMAIN transaction |-> json_scalar(transaction[f])]

json_summary(summary) == [f \in DOMAIN summary |-> IntStr(summary[f])]

json_field_mismatch(found) ==
  [ field |-> found.field,
    value_a |-> json_scalar(found.value_a),
    value_b |-> json_scalar(found.value_b) ]

json_mismatch(entry) ==
  [ key |-> json_string(entry.key),
    transaction_a |-> json_object(entry.transaction_a),
    transaction_b |-> json_object(entry.transaction_b),
    mismatches |-> [j \in 1..Len(entry.mismatches) |-> json_field_mismatch(entry.mismatches[j])] ]

json_dumps(results) ==
  [ start_date |-> results.start_date,
    end_date |-> results.end_date,
    source_a |-> results.source_a,
    source_b |-> results.source_b,
    summary |-> json_summary(results.summary),
    mismatches |-> [i \in 1..Len(results.mismatches) |-> json_mismatch(results.mismatches[i])],
    only_in_a |-> [i \in 1..Len(results.only_in_a) |-> json_object(results.only_in_a[i])],
    only_in_b |-> [i \in 1..Len(results.only_in_b) |-> json_object(results.only_in_b[i])] ]

generate_json_report(results) == [kind |-> "json", body |-> json_dumps(results)]

ReportError == [kind |-> "error"]

NoReport == [kind |-> "none"]

\* variant: a format that is none of the three is refused
generate_report_strict(results, format, key_fields) ==
  IF format = "json" THEN generate_json_report(results)
  ELSE IF format = "csv" THEN generate_csv_report(results)
  ELSE IF format = "text" THEN generate_text_report(results, key_fields)
  ELSE ReportError

\* ReconciliationSystem.generate_report
generate_report(results, format, key_fields) ==
  IF format = "json" THEN generate_json_report(results)
  ELSE IF format = "csv" THEN generate_csv_report(results)
  ELSE generate_text_report(results, key_fields)

Formats == {"text", "json", "csv", "xml"}

\* variant: the text report takes the entries it shows off the lists
rendered_consuming(results, format, key_fields) ==
  [ report |-> generate_report(results, format, key_fields),
    results |->
      IF format \in {"json", "csv"} THEN results
      ELSE [results EXCEPT
              !.mismatches = SubSeq(@, Min(Len(@), SHOW_FIRST) + 1, Len(@)),
              !.only_in_a = SubSeq(@, Min(Len(@), SHOW_FIRST) + 1, Len(@)),
              !.only_in_b = SubSeq(@, Min(Len(@), SHOW_FIRST) + 1, Len(@))] ]

\* a generate_report call: the report it returns, and the results dict it
\* was given as the call leaves it.  None of the three renderers assigns
\* into the dict, its lists or its records: they read, slice and copy.
rendered(results, format, key_fields) ==
  [ report |-> generate_report(results, format, key_fields),
    results |-> results ]

\* ------------------------------------------------------------------------
\* State
\* ------------------------------------------------------------------------
VARIABLES
  source_a,           \* self.source_a
  source_b,           \* self.source_b
  key_fields,         \* self.key_fields
  comparison_fields,  \* the comparison_fields argument of reconcile
  pc,                 \* where the caller of the system stands
  calls_a,            \* number of get_transactions calls made on source_a
  calls_b,            \* number of get_transactions calls made on source_b
  transactions_a,     \* local of reconcile
  transactions_b,     \* local of reconcile
  locals,             \* the other locals of reconcile when it returns
  results,            \* the value reconcile returned
  format,             \* the format argument of generate_report
  report,             \* the value generate_report returned
  run,                \* 1: sources as configured; 2: the two sources exchanged
  first               \* what run 1 returned, kept for run 2

\* _normalize_value applied to a value, and again to what it returned
VARIABLES
  value,              \* the value of a record field
  normalized          \* what the successive _normalize_value calls returned

\* RateLimiter of src/4_ratelimiter.py and the threads calling is_allowed
VARIABLES
  limit,              \* self.limit
  window,             \* self.window
  requests,           \* self.requests: API key -> list of timestamps
  lock,               \* self.lock: the thread holding it, 0 when free
  now,                \* what time.time() returns
  threads,            \* per thread: where it stands in is_allowed, and its locals
  granted             \* per API key, the timestamps of the calls that returned True

\* PaymentProcessor and IdempotencyStore of src/23_idempotency.py and the
\* callers of process_payment
VARIABLES
  store,              \* idempotency_store.store: key -> {result, created_at}
  expiration_hours,   \* idempotency_store.expiration_hours
  clock_hours,        \* what datetime.now() returns, in hours
  callers,            \* per caller: where it stands in process_payment, its locals
  uuids,              \* the number of uuid4 values drawn so far
  history             \* the process_payment calls that have returned

\* a call of a function wrapped by retry_with_backoff (src/24_retrypattern.py)
VARIABLES
  max_retries,        \* decorator argument
  initial_delay,      \* decorator argument
  backoff_factor,     \* decorator argument
  jitter,             \* decorator argument
  retries,            \* local of wrapper
  delay,              \* local of wrapper
  sleep_time,         \* local of wrapper: the argument of the last time.sleep
  attempts,           \* how each invocation of func ended, in order
  retry_pc,           \* where the wrapper stands
  outcome             \* what the wrapper returned or raised

\* CircuitBreaker of src/22_circuitbreaker.py and the calls through it
VARIABLES
  failure_threshold,      \* self.failure_threshold
  recovery_timeout,       \* self.recovery_timeout
  failure_window,         \* self.failure_window
  state,                  \* self.state
  failure_count,          \* self.failure_count
  last_failure_time,      \* self.last_failure_time
  last_state_change_time, \* self.last_state_change_time
  time_time,              \* what time.time() returns
  last_call               \* the last completed call of the wrapped function

\* WebhookVerifier of src/25_webhookverification.py and the requests
\* delivered to it
VARIABLES
  max_timestamp_diff, \* self.max_timestamp_diff
  replay_protection,  \* self.replay_protection
  seen_signatures,    \* self._seen_signatures: signature -> time recorded
  cleanup_interval,   \* self._cleanup_interval
  last_cleanup,       \* self._last_cleanup
  datetime_now,       \* what datetime.now() returns
  accepted,           \* the signed requests verify has returned valid for
  last_verify,        \* the last verify call and what it returned
  replay_checks       \* the number of is_replay calls made

\* TokenManager.complete_oauth2_flow of src/12_tokenmanagementsystem.py
VARIABLES
  services,           \* token_db: the auth_type of each registered service
  token_requests,     \* the token requests sent to the provider
  stored_tokens,      \* token_db: the tokens stored
  last_flow           \* the last complete_oauth2_flow call and how it ended

\* EventProcessor, EventDatabase and the workers of IntegrationService
\* (src/13_listener.py)
VARIABLES
  work_queue,         \* self.work_queue
  processed_events,   \* the processed_events table: event_id -> status
  workers,            \* per worker thread: where it stands, and its event
  handled,            \* per event id, the number of times the handler ran
  enqueued            \* the number of events put on the queue

\* TokenBucket of src/14_ratelimiter2.py
VARIABLES
  capacity,           \* self.capacity
  refill_rate,        \* self.refill_rate
  tokens,             \* self.tokens
  last_refill,        \* self.last_refill
  bucket_time,        \* what time.time() returns
  last_consume        \* the last consume call and what it returned

reconcile_vars ==
  <<source_a, source_b, key_fields, comparison_fields, pc, calls_a, calls_b,
    transactions_a, transactions_b, locals, results, format, report, run, first>>

normalize_vars == <<value, normalized>>

limiter_vars == <<limit, window, requests, lock, now, threads, granted>>

payment_vars == <<store, expiration_hours, clock_hours, callers, uuids, history>>

retry_vars ==
  <<max_retries, initial_delay, backoff_factor, jitter, retries, delay, sleep_time,
    attempts, retry_pc, outcome>>

breaker_vars ==
  <<failure_threshold, recovery_timeout, failure_window, state, failure_count,
    last_failure_time, last_state_change_time, time_time, last_call>>

webhook_vars ==
  <<max_timestamp_diff, replay_protection, seen_signatures, cleanup_interval,
    last_cleanup, datetime_now, accepted, last_verify, replay_checks>>

oauth_vars == <<services, token_requests, stored_tokens, last_flow>>

events_vars == <<work_queue, processed_events, workers, handled, enqueued>>

bucket_vars == <<capacity, refill_rate, tokens, last_refill, bucket_time, last_consume>>

vars ==
  <<reconcile_vars, normalize_vars, limiter_vars, payment_vars, retry_vars,
    breaker_vars, webhook_vars, oauth_vars, events_vars, bucket_vars>>

\* no _normalize_value call is under way
NormalizeIdle ==
  /\ value = PyNone
  /\ normalized = <<>>

\* no RateLimiter has been built
LimiterIdle ==
  /\ limit = 0
  /\ window = 0
  /\ requests = <<>>
  /\ lock = 0
  /\ now = 0
  /\ threads = <<>>
  /\ granted = <<>>

\* no PaymentProcessor has been built
PaymentIdle ==
  /\ store = <<>>
  /\ expiration_hours = 0
  /\ clock_hours = 0
  /\ callers = <<>>
  /\ uuids = 0
  /\ history = <<>>

\* no wrapped function is being called
RetryIdle ==
  /\ max_retries = 0
  /\ initial_delay = 0
  /\ backoff_factor = 0
  /\ jitter = 0
  /\ retries = 0
  /\ delay = 0
  /\ sleep_time = 0
  /\ attempts = <<>>
  /\ retry_pc = "idle"
  /\ outcome = <<>>

\* no CircuitBreaker has been built
BreakerIdle ==
  /\ failure_threshold = 0
  /\ recovery_timeout = 0
  /\ failure_window = 0
  /\ state = ""
  /\ failure_count = 0
  /\ last_failure_time = 0
  /\ last_state_change_time = 0
  /\ time_time = 0
  /\ last_call = <<>>

\* no WebhookVerifier has been built
WebhookIdle ==
  /\ max_timestamp_diff = 0
  /\ replay_protection = FALSE
  /\ seen_signatures = <<>>
  /\ cleanup_interval = 0
  /\ last_cleanup = 0
  /\ datetime_now = 0
  /\ accepted = {}
  /\ last_verify = <<>>
  /\ replay_checks = 0

\* no TokenManager has been built
OauthIdle ==
  /\ services = <<>>
  /\ token_requests = <<>>
  /\ stored_tokens = {}
  /\ last_flow = <<>>

\* no IntegrationService has been built
EventsIdle ==
  /\ work_queue = <<>>
  /\ processed_events = <<>>
  /\ workers = <<>>
  /\ handled = <<>>
  /\ enqueued = 0

\* no TokenBucket has been built
BucketIdle ==
  /\ capacity = 0
  /\ refill_rate = 0
  /\ tokens = 0
  /\ last_refill = 0
  /\ bucket_time = 0
  /\ last_consume = <<>>

NoSource == [name |-> "", kind |-> "base", fault |-> "none", rows |-> <<>>]

\* no ReconciliationSystem has been built
ReconcileIdle ==
  /\ source_a = NoSource
  /\ source_b = NoSource
  /\ key_fields = <<>>
  /\ comparison_fields = [given |-> FALSE, fields |-> <<>>]
  /\ pc = "idle"
  /\ calls_a = 0
  /\ calls_b = 0
  /\ transactions_a = <<>>
  /\ transactions_b = <<>>
  /\ locals = NoLocals
  /\ results = NoResults
  /\ format = ""
  /\ report = NoReport
  /\ run = 1
  /\ first = NoResults

\* what a reconciliation run leaves alone
beside_reconcile ==
  <<normalize_vars, limiter_vars, payment_vars, retry_vars, breaker_vars,
    webhook_vars, oauth_vars, events_vars, bucket_vars>>

BesideReconcileIdle ==
  NormalizeIdle /\ LimiterIdle /\ PaymentIdle /\ RetryIdle /\ BreakerIdle /\
    WebhookIdle /\ OauthIdle /\ EventsIdle /\ BucketIdle

\* what a _normalize_value call leaves alone
beside_normalize ==
  <<reconcile_vars, limiter_vars, payment_vars, retry_vars, breaker_vars,
    webhook_vars, oauth_vars, events_vars, bucket_vars>>

BesideNormalizeIdle ==
  ReconcileIdle /\ LimiterIdle /\ PaymentIdle /\ RetryIdle /\ BreakerIdle /\
    WebhookIdle /\ OauthIdle /\ EventsIdle /\ BucketIdle

\* what the RateLimiter and its callers leave alone
beside_limiter ==
  <<reconcile_vars, normalize_vars, payment_vars, retry_vars, breaker_vars,
    webhook_vars, oauth_vars, events_vars, bucket_vars>>

BesideLimiterIdle ==
  ReconcileIdle /\ NormalizeIdle /\ PaymentIdle /\ RetryIdle /\
    BreakerIdle /\ WebhookIdle /\ OauthIdle /\ EventsIdle /\ BucketIdle

\* what the PaymentProcessor and its callers leave alone
beside_payment ==
  <<reconcile_vars, normalize_vars, limiter_vars, retry_vars, breaker_vars,
    webhook_vars, oauth_vars, events_vars, bucket_vars>>

BesidePaymentIdle ==
  ReconcileIdle /\ NormalizeIdle /\ LimiterIdle /\ RetryIdle /\
    BreakerIdle /\ WebhookIdle /\ OauthIdle /\ EventsIdle /\ BucketIdle

\* what a call of a function wrapped by retry_with_backoff leaves alone
beside_retry ==
  <<reconcile_vars, normalize_vars, limiter_vars, payment_vars, breaker_vars,
    webhook_vars, oauth_vars, events_vars, bucket_vars>>

BesideRetryIdle ==
  ReconcileIdle /\ NormalizeIdle /\ LimiterIdle /\ PaymentIdle /\
    BreakerIdle /\ WebhookIdle /\ OauthIdle /\ EventsIdle /\ BucketIdle

\* what the CircuitBreaker and the calls through it leave alone
beside_breaker ==
  <<reconcile_vars, normalize_vars, limiter_vars, payment_vars, retry_vars,
    webhook_vars, oauth_vars, events_vars, bucket_vars>>

BesideBreakerIdle ==
  ReconcileIdle /\ NormalizeIdle /\ LimiterIdle /\ PaymentIdle /\
    RetryIdle /\ WebhookIdle /\ OauthIdle /\ EventsIdle /\ BucketIdle

\* what the WebhookVerifier leaves alone
beside_webhook ==
  <<reconcile_vars, normalize_vars, limiter_vars, payment_vars, retry_vars,
    breaker_vars, oauth_vars, events_vars, bucket_vars>>

BesideWebhookIdle ==
  ReconcileIdle /\ NormalizeIdle /\ LimiterIdle /\ PaymentIdle /\
    RetryIdle /\ BreakerIdle /\ OauthIdle /\ EventsIdle /\ BucketIdle

\* what complete_oauth2_flow leaves alone
beside_oauth ==
  <<reconcile_vars, normalize_vars, limiter_vars, payment_vars, retry_vars,
    breaker_vars, webhook_vars, events_vars, bucket_vars>>

BesideOauthIdle ==
  ReconcileIdle /\ NormalizeIdle /\ LimiterIdle /\ PaymentIdle /\
    RetryIdle /\ BreakerIdle /\ WebhookIdle /\ EventsIdle /\ BucketIdle

\* what the EventProcessor and the workers leave alone
beside_events ==
  <<reconcile_vars, normalize_vars, limiter_vars, payment_vars, retry_vars,
    breaker_vars, webhook_vars, oauth_vars, bucket_vars>>

BesideEventsIdle ==
  ReconcileIdle /\ NormalizeIdle /\ LimiterIdle /\ PaymentIdle /\
    RetryIdle /\ BreakerIdle /\ WebhookIdle /\ OauthIdle /\ BucketIdle

\* what the TokenBucket leaves alone
beside_bucket ==
  <<reconcile_vars, normalize_vars, limiter_vars, payment_vars, retry_vars,
    breaker_vars, webhook_vars, oauth_vars, events_vars>>

BesideBucketIdle ==
  ReconcileIdle /\ NormalizeIdle /\ LimiterIdle /\ PaymentIdle /\
    RetryIdle /\ BreakerIdle /\ WebhookIdle /\ OauthIdle /\ EventsIdle

\* ReconciliationSystem.__init__ has run
Init ==
  /\ source_a \in SourcesFor("A", RecordsA, MaxLenA)
  /\ source_b \in SourcesFor("B", RecordsB, MaxLenB)
  /\ key_fields \in KeyFieldChoices
  /\ comparison_fields \in ComparisonFieldChoices
  /\ pc = "ready"
  /\ calls_a = 0
  /\ calls_b = 0
  /\ transactions_a = <<>>
  /\ transactions_b = <<>>
  /\ locals = NoLocals
  /\ results = NoResults
  /\ format = ""
  /\ report = NoReport
  /\ run = 1
  /\ first = NoResults
  /\ BesideReconcileIdle

\* line 498
CallGetTransactionsA ==
  /\ pc = "ready"
  /\ calls_a' = calls_a + 1
  /\ IF get_transactions(source_a).raised
     THEN /\ pc' = "raised"
          /\ UNCHANGED transactions_a
     ELSE /\ pc' = "fetched_a"
          /\ transactions_a' = get_transactions(source_a).value
  /\ UNCHANGED <<source_a, source_b, key_fields, comparison_fields, calls_b,
                 transactions_b, locals, results, format, report, run, first>>
  /\ UNCHANGED beside_reconcile

\* variant: the exception of source_b is swallowed
CallGetTransactionsB_swallow ==
  /\ pc = "fetched_a"
  /\ calls_b' = calls_b + 1
  /\ transactions_b' = get_transactions(source_b).value
  /\ pc' = "fetched_b"
  /\ UNCHANGED <<source_a, source_b, key_fields, comparison_fields, calls_a,
                 transactions_a, locals, results, format, report, run, first>>
  /\ UNCHANGED beside_reconcile

\* line 499
CallGetTransactionsB ==
  /\ pc = "fetched_a"
  /\ calls_b' = calls_b + 1
  /\ IF get_transactions(source_b).raised
     THEN /\ pc' = "raised"
          /\ UNCHANGED transactions_b
     ELSE /\ pc' = "fetched_b"
          /\ transactions_b' = get_transactions(source_b).value
  /\ UNCHANGED <<source_a, source_b, key_fields, comparison_fields, calls_a,
                 transactions_a, locals, results, format, report, run, first>>
  /\ UNCHANGED beside_reconcile

\* lines 501-582: index, partition, compare, assemble
Compare ==
  /\ pc = "fetched_b"
  /\ \E r \in reconciled([start_date |-> START_DATE, end_date |-> END_DATE,
                          source_a |-> source_a.name, source_b |-> source_b.name],
                         transactions_a, transactions_b, key_fields, comparison_fields) :
       /\ locals' = r.locals
       /\ results' = r.results
  /\ pc' = "done"
  /\ UNCHANGED <<source_a, source_b, key_fields, comparison_fields, calls_a, calls_b,
                 transactions_a, transactions_b, format, report, run, first>>
  /\ UNCHANGED beside_reconcile

\* generate_report(results, format), as main() calls it after reconcile
GenerateReport ==
  /\ pc = "done"
  /\ \E f \in Formats :
       /\ format' = f
       /\ report' = rendered(results, f, key_fields).report
       /\ results' = rendered(results, f, key_fields).results
  /\ pc' = "reported"
  /\ UNCHANGED <<source_a, source_b, key_fields, comparison_fields, calls_a, calls_b,
                 transactions_a, transactions_b, locals, run, first>>
  /\ UNCHANGED beside_reconcile

\* generate_report called a second time on the same results
GenerateReportAgain ==
  /\ pc = "reported"
  /\ \E f \in Formats :
       /\ format' = f
       /\ report' = rendered(results, f, key_fields).report
       /\ results' = rendered(results, f, key_fields).results
  /\ pc' = "rendered_twice"
  /\ UNCHANGED <<source_a, source_b, key_fields, comparison_fields, calls_a, calls_b,
                 transactions_a, transactions_b, locals, run, first>>
  /\ UNCHANGED beside_reconcile

\* ReconciliationSystem(source_b, source_a, key_fields): a second system over
\* the same two sources, exchanged, about to reconcile the same period
ReconcileSwapped ==
  /\ pc = "done"
  /\ run = 1
  /\ run' = 2
  /\ first' = results
  /\ source_a' = source_b
  /\ source_b' = source_a
  /\ pc' = "ready"
  /\ calls_a' = 0
  /\ calls_b' = 0
  /\ transactions_a' = <<>>
  /\ transactions_b' = <<>>
  /\ locals' = NoLocals
  /\ results' = NoResults
  /\ format' = ""
  /\ report' = NoReport
  /\ UNCHANGED <<key_fields, comparison_fields>>
  /\ UNCHANGED beside_reconcile

\* main(): one reconcile call, then one generate_report call
Next ==
  \/ CallGetTransactionsA
  \/ CallGetTransactionsB
  \/ Compare
  \/ GenerateReport

Spec == Init /\ [][Next]_vars

\* reconcile on a system, then reconcile on a second system over the same
\* two sources exchanged
NextSwap ==
  \/ CallGetTransactionsA
  \/ CallGetTransactionsB
  \/ Compare
  \/ ReconcileSwapped

SpecSwap == Init /\ [][NextSwap]_vars

\* ------------------------------------------------------------------------
\* Properties
\* ------------------------------------------------------------------------
Done == pc \in {"done", "reported"}

KeysOf(transactions) ==
  {generate_key(transactions[i], key_fields) : i \in 1..Len(transactions)}

\* the number of entries of a list of match or mismatch entries with key k
EntriesWithKey(list, k) == Cardinality({i \in 1..Len(list) : list[i].key = k})

\* C1: when reconcile returns, common and only_a make up the keys of index
\* A, common and only_b the keys of index B, and the three sets are pairwise
\* disjoint.
C1_PartitionComplete ==
  Done =>
    /\ DOMAIN locals.transactions_a_dict = KeysOf(transactions_a)
    /\ DOMAIN locals.transactions_b_dict = KeysOf(transactions_b)
    /\ locals.keys_common \cup locals.keys_only_a = DOMAIN locals.transactions_a_dict
    /\ locals.keys_common \cup locals.keys_only_b = DOMAIN locals.transactions_b_dict
    /\ locals.keys_common \cap locals.keys_only_a = {}
    /\ locals.keys_common \cap locals.keys_only_b = {}
    /\ locals.keys_only_a \cap locals.keys_only_b = {}

C1_Witness ==
  /\ pc = "done"
  /\ locals.keys_common # {}
  /\ locals.keys_only_a # {}
  /\ locals.keys_only_b # {}

\* a comparison field of the run differs between the two indexed records of
\* key k after normalization
SomeFieldDiffers(k) ==
  \E i \in 1..Len(locals.comparison_fields) :
    ~PyEq(normalize_value(Get(locals.transactions_a_dict[k], locals.comparison_fields[i], PyNone)),
          normalize_value(Get(locals.transactions_b_dict[k], locals.comparison_fields[i], PyNone)))

\* C2: every common key has exactly one entry in matches and mismatches
\* taken together, and the entry is in mismatches exactly when some
\* comparison field differs after normalization.
C2_MatchExclusive ==
  Done =>
    \A k \in locals.keys_common :
      /\ EntriesWithKey(locals.matches, k) + EntriesWithKey(results.mismatches, k) = 1
      /\ EntriesWithKey(results.mismatches, k) = 1 <=> SomeFieldDiffers(k)

C2_Witness ==
  /\ pc = "done"
  /\ locals.matches # <<>>
  /\ results.mismatches # <<>>

\* C3: reconcile returns a result only when neither get_transactions call
\* raised; when one raises, reconcile raises, nothing is returned, and a
\* failure of source A leaves source B unasked.
C3_FetchFailureAborts ==
  /\ Done => ~get_transactions(source_a).raised /\ ~get_transactions(source_b).raised
  /\ pc = "raised" => results = NoResults /\ locals = NoLocals /\ report = NoReport
  /\ calls_a > 0 /\ get_transactions(source_a).raised => pc = "raised" /\ calls_b = 0
  /\ calls_b > 0 /\ get_transactions(source_b).raised => pc = "raised"

C3_Witness ==
  /\ pc = "raised"
  /\ calls_b = 1
  /\ transactions_a # <<>>
  /\ source_b.kind = "base"

Unavailable(source) == source.fault # "none"

C5_EmptyKeyFieldsRejected ==
  key_fields = <<>> => calls_a = 0 /\ calls_b = 0

\* C6 as claimed: generate_report fails for a format other than text, json
\* or csv.
C6_UnsupportedFormatFails ==
  pc = "reported" /\ format \notin {"text", "json", "csv"} => report = ReportError

\* C6 amended: generate_report called with a format other than json or csv
\* does not fail; it returns the text report of the result, the one the
\* format text gives.
C6_UnsupportedFormatIsText ==
  pc = "reported" /\ format \notin {"json", "csv"} =>
    /\ report.kind = "text"
    /\ report = generate_text_report(results, key_fields)

C6_Witness ==
  /\ pc = "reported"
  /\ format = "xml"
  /\ report.kind = "text"
  /\ results.mismatches # <<>>

\* the record of the list that the index must hold for key k: the last one
LastWithKey(transactions, k) ==
  transactions[CHOOSE i \in 1..Len(transactions) :
                 /\ generate_key(transactions[i], key_fields) = k
                 /\ \A j \in (i + 1)..Len(transactions) :
                      generate_key(transactions[j], key_fields) # k]

\* C7: each index holds, for every key, the last record of the fetched list
\* with that key; matches, mismatches and the one-sided lists carry only
\* indexed records; total_a and total_b count every fetched record.
C7_LastDuplicateWins ==
  Done =>
    /\ \A k \in DOMAIN locals.transactions_a_dict :
         locals.transactions_a_dict[k] = LastWithKey(transactions_a, k)
    /\ \A k \in DOMAIN locals.transactions_b_dict :
         locals.transactions_b_dict[k] = LastWithKey(transactions_b, k)
    /\ \A i \in 1..Len(locals.matches) :
         /\ locals.matches[i].transaction_a = LastWithKey(transactions_a, locals.matches[i].key)
         /\ locals.matches[i].transaction_b = LastWithKey(transactions_b, locals.matches[i].key)
    /\ \A i \in 1..Len(results.mismatches) :
         /\ results.mismatches[i].transaction_a
              = LastWithKey(transactions_a, results.mismatches[i].key)
         /\ results.mismatches[i].transaction_b
              = LastWithKey(transactions_b, results.mismatches[i].key)
    /\ Range(results.only_in_a) = {LastWithKey(transactions_a, k) : k \in locals.keys_only_a}
    /\ Range(results.only_in_b) = {LastWithKey(transactions_b, k) : k \in locals.keys_only_b}
    /\ results.summary.total_a = Len(transactions_a)
    /\ results.summary.total_b = Len(transactions_b)

C7_Witness ==
  /\ pc = "done"
  /\ Len(transactions_a) = 2
  /\ transactions_a[1] # transactions_a[2]
  /\ generate_key(transactions_a[1], key_fields) = generate_key(transactions_a[2], key_fields)
  /\ results.summary.total_a = 2
  /\ Cardinality(DOMAIN locals.transactions_a_dict) = 1
  /\ key_fields # <<>>

Swapped(field_mismatch) ==
  [field |-> field_mismatch.field, value_a |-> field_mismatch.value_b,
   value_b |-> field_mismatch.value_a]

\* C8: the run over the exchanged sources reports as only-in-B what the
\* first run reported as only-in-A and the reverse, and mismatches for the
\* same keys, with the two records and the two values of every field
\* mismatch exchanged.
C8_SwapSymmetry ==
  run = 2 /\ Done =>
    /\ Range(first.only_in_a) = Range(results.only_in_b)
    /\ Range(first.only_in_b) = Range(results.only_in_a)
    /\ Len(first.only_in_a) = Len(results.only_in_b)
    /\ Len(first.only_in_b) = Len(results.only_in_a)
    /\ {first.mismatches[i].key : i \in 1..Len(first.mismatches)}
         = {results.mismatches[i].key : i \in 1..Len(results.mismatches)}
    /\ Len(first.mismatches) = Len(results.mismatches)
    /\ \A i \in 1..Len(first.mismatches), j \in 1..Len(results.mismatches) :
         first.mismatches[i].key = results.mismatches[j].key =>
           /\ first.mismatches[i].transaction_a = results.mismatches[j].transaction_b
           /\ first.mismatches[i].transaction_b = results.mismatches[j].transaction_a
           /\ {Swapped(first.mismatches[i].mismatches[n]) :
                 n \in 1..Len(first.mismatches[i].mismatches)}
                = Range(results.mismatches[j].mismatches)

C8_Witness ==
  /\ run = 2
  /\ pc = "done"
  /\ first.only_in_a # <<>>
  /\ first.only_in_b # <<>>
  /\ first.mismatches # <<>>

AllFields(transactions) == UNION {DOMAIN transactions[i] : i \in 1..Len(transactions)}

\* C9: with no comparison fields supplied, the fields compared are the field
\* names occurring in some record of A and in some record of B, minus the
\* key fields.
C9_DefaultFieldsFromAllRecords ==
  Done /\ ~comparison_fields.given =>
    Range(locals.comparison_fields)
      = (AllFields(transactions_a) \cap AllFields(transactions_b)) \ Range(key_fields)

\* the number of hundredths nearest to a number of thousandths, the even one
\* when two are equally near
NearestCent(m) ==
  CHOOSE c \in (m \div 10)..(m \div 10 + 1) :
    /\ (m - 10 * c) \in -5..5
    /\ (m - 10 * c) \in {-5, 5} => c % 2 = 0

CentsOf(x) == IF x.t = "int" THEN 100 * x.v ELSE NearestCent(x.v)

FieldReported(k, f) ==
  \E i \in 1..Len(results.mismatches) :
    /\ results.mismatches[i].key = k
    /\ \E j \in 1..Len(results.mismatches[i].mismatches) :
         results.mismatches[i].mismatches[j].field = f

\* C10: for a common key, a comparison field holding a number (int or float)
\* in both records is reported as a mismatch exactly when the two numbers
\* differ once each is rounded to 2 decimal places.
C10_NumericMismatchIffRoundedDiffer ==
  Done =>
    \A k \in locals.keys_common : \A f \in Range(locals.comparison_fields) :
      LET value_a == Get(locals.transactions_a_dict[k], f, PyNone)
          value_b == Get(locals.transactions_b_dict[k], f, PyNone)
      IN  value_a.t \in {"int", "float"} /\ value_b.t \in {"int", "float"} =>
            (FieldReported(k, f) <=> CentsOf(value_a) # CentsOf(value_b))

C10_Witness ==
  /\ pc = "done"
  /\ \E i \in 1..Len(locals.matches) :
       /\ "amount" \in Range(locals.comparison_fields)
       /\ "amount" \in DOMAIN locals.matches[i].transaction_a
       /\ "amount" \in DOMAIN locals.matches[i].transaction_b
       /\ locals.matches[i].transaction_a["amount"] = PyFloat(10000)
       /\ locals.matches[i].transaction_b["amount"] = PyFloat(10001)

\* ------------------------------------------------------------------------
\* _normalize_value on its own: one call on a field value, a second call on
\* what the first returned
\* ------------------------------------------------------------------------
MaxStrLen == 2
MaxInt == 2

Chars == {" ", "U", "u"}

Strings == SeqsUpTo(Chars, MaxStrLen)

\* the values a record field may hold: None, a bool, an int, a float, a str,
\* or a value of another type (a list, a Decimal, ...) with the given str()
FieldValues ==
  {PyNone}
  \cup {PyBool(b) : b \in BOOLEAN}
  \cup {PyInt(n) : n \in (0 - MaxInt)..MaxInt}
  \cup {PyFloat(m) : m \in {0, 10000, 10001, 10006, 10125, 12000}}
  \cup {PyStr(s) : s \in Strings}
  \cup {PyOther(s) : s \in Strings}

InitNormalize ==
  /\ value \in FieldValues
  /\ normalized = <<>>
  /\ BesideNormalizeIdle

\* _normalize_value(value)
NormalizeValue ==
  /\ normalized = <<>>
  /\ normalized' = <<normalize_value(value)>>
  /\ UNCHANGED <<value, beside_normalize>>

\* _normalize_value(_normalize_value(value))
NormalizeAgain ==
  /\ Len(normalized) = 1
  /\ normalized' = Append(normalized, normalize_value(normalized[1]))
  /\ UNCHANGED <<value, beside_normalize>>

NextNormalize ==
  \/ NormalizeValue
  \/ NormalizeAgain

SpecNormalize == InitNormalize /\ [][NextNormalize]_vars

\* C11: normalizing a value that _normalize_value returned gives that value
\* again, whatever the type of the value first normalized.
C11_NormalizeIdempotent ==
  Len(normalized) = 2 => PyEq(normalized[2], normalized[1])

\* the same for None, numbers, booleans and strings only
C11_IdempotentOnScalars ==
  Len(normalized) = 2 /\ value.t # "other" => PyEq(normalized[2], normalized[1])

\* C12: every field mismatch of the result names a comparison field and
\* carries the values the two indexed records hold for it, as they are in
\* the records, not as normalized for the comparison.
C12_MismatchCarriesOriginals ==
  Done =>
    \A i \in 1..Len(results.mismatches) :
      \A j \in 1..Len(results.mismatches[i].mismatches) :
        LET entry == results.mismatches[i]
            found == entry.mismatches[j]
        IN  /\ found.field \in Range(locals.comparison_fields)
            /\ found.value_a = Get(locals.transactions_a_dict[entry.key], found.field, PyNone)
            /\ found.value_b = Get(locals.transactions_b_dict[entry.key], found.field, PyNone)
            /\ found.value_a = Get(entry.transaction_a, found.field, PyNone)
            /\ found.value_b = Get(entry.transaction_b, found.field, PyNone)

\* a reported value that normalization would have changed
C12_Witness ==
  /\ pc = "done"
  /\ \E i \in 1..Len(results.mismatches) :
       \E j \in 1..Len(results.mismatches[i].mismatches) :
         /\ results.mismatches[i].mismatches[j].field = "amount"
         /\ results.mismatches[i].mismatches[j].value_a = PyFloat(12000)
         /\ results.mismatches[i].mismatches[j].value_b = PyFloat(10001)
         /\ normalize_value(PyFloat(10001)) # PyFloat(10001)

\* ------------------------------------------------------------------------
\* reconcile over two sources of one record each, the same key on both
\* sides, one record lacking the comparison field
\* ------------------------------------------------------------------------
\* the values the adapters deliver for a field: of the values of another type
\* (a list, a dict, bytes, a timestamp) none has a blank str()
SourceValues == {v \in FieldValues : v.t = "other" => strip(v.v) # <<>>}

JsonSource(name, rows) == [name |-> name, kind |-> "json", fault |-> "none", rows |-> rows]

WithoutAmount == [id |-> PyStr(<<"1">>)]

WithAmount(v) == [id |-> PyStr(<<"1">>), amount |-> v]

AbsentPairs ==
  {<<WithoutAmount, WithAmount(v)>> : v \in SourceValues}
  \cup {<<WithAmount(v), WithoutAmount>> : v \in SourceValues}
  \cup {<<WithoutAmount, WithoutAmount>>}

\* a system has been built and reconcile not yet called
ReadyToReconcile ==
  /\ pc = "ready"
  /\ calls_a = 0
  /\ calls_b = 0
  /\ transactions_a = <<>>
  /\ transactions_b = <<>>
  /\ locals = NoLocals
  /\ results = NoResults
  /\ format = ""
  /\ report = NoReport
  /\ run = 1
  /\ first = NoResults
  /\ BesideReconcileIdle

InitAbsent ==
  /\ \E p \in AbsentPairs :
       /\ source_a = JsonSource("A", <<p[1]>>)
       /\ source_b = JsonSource("B", <<p[2]>>)
  /\ key_fields = <<"id">>
  /\ comparison_fields = [given |-> TRUE, fields |-> <<"amount">>]
  /\ ReadyToReconcile

\* one reconcile call
NextReconcile ==
  \/ CallGetTransactionsA
  \/ CallGetTransactionsB
  \/ Compare

SpecAbsent == InitAbsent /\ [][NextReconcile]_vars

\* None, or a string that is empty once trimmed
Blank(v) == v.t = "none" \/ (v.t = "str" /\ strip(v.v) = <<>>)

\* C13: reconcile does not raise over a record that lacks a comparison
\* field; the field is reported as a mismatch exactly when the other record
\* holds a value for it that is neither None nor an empty or whitespace-only
\* string, and the absent side is then reported as None.
C13_AbsentFieldIsNull ==
  /\ pc # "raised"
  /\ Done =>
       \A k \in locals.keys_common : \A f \in Range(locals.comparison_fields) :
         LET tx_a == locals.transactions_a_dict[k]
             tx_b == locals.transactions_b_dict[k]
         IN  /\ f \notin DOMAIN tx_a =>
                  (FieldReported(k, f) <=> f \in DOMAIN tx_b /\ ~Blank(tx_b[f]))
             /\ f \notin DOMAIN tx_b =>
                  (FieldReported(k, f) <=> f \in DOMAIN tx_a /\ ~Blank(tx_a[f]))
             /\ \A i \in 1..Len(results.mismatches) :
                  \A j \in 1..Len(results.mismatches[i].mismatches) :
                    LET found == results.mismatches[i].mismatches[j]
                    IN  /\ f \notin DOMAIN tx_a => found.value_a = PyNone
                        /\ f \notin DOMAIN tx_b => found.value_b = PyNone

\* an absent field against a whitespace-only string: no mismatch
C13_Witness ==
  /\ pc = "done"
  /\ transactions_a = <<WithoutAmount>>
  /\ transactions_b = <<WithAmount(PyStr(<<" ">>))>>
  /\ results.mismatches = <<>>
  /\ Len(locals.matches) = 1

\* ------------------------------------------------------------------------
\* reconcile over two sources of one record each, the key fields of the
\* records absent, None, empty or set
\* ------------------------------------------------------------------------
Absent == [t |-> "absent", v |-> 0]

\* the dict holding the given fields, those marked Absent left out
Record(fields) == [f \in {g \in DOMAIN fields : fields[g].t # "absent"} |-> fields[f]]

IdValues == {Absent, PyNone, PyStr(<<>>), PyStr(<<"1">>), PyInt(1), PyStr(<<"1", "|">>)}

RefValues == {Absent, PyNone, PyStr(<<>>), PyStr(<<"1">>), PyStr(<<"|", "1">>)}

AmountValues == {PyInt(10), PyInt(12)}

KeyRecords ==
  {Record([id |-> i, ref |-> r, amount |-> a]) :
     i \in IdValues, r \in RefValues, a \in AmountValues}

KeyFieldLists == {<<"id">>, <<"id", "ref">>}

InitKeys ==
  /\ \E tx_a \in KeyRecords, tx_b \in KeyRecords :
       /\ source_a = JsonSource("A", <<tx_a>>)
       /\ source_b = JsonSource("B", <<tx_b>>)
  /\ key_fields \in KeyFieldLists
  /\ comparison_fields = [given |-> TRUE, fields |-> <<"amount">>]
  /\ ReadyToReconcile

SpecKeys == InitKeys /\ [][NextReconcile]_vars

\* the key field is absent from the record, None, or the empty string
Missing(tx, f) ==
  \/ f \notin DOMAIN tx
  \/ tx[f].t = "none"
  \/ tx[f].t = "str" /\ tx[f].v = <<>>

\* the key the claim gives a record: nothing for a missing key field
KeyWithEmptyForMissing(tx) ==
  join(<<"|">>, [i \in 1..Len(key_fields) |->
                   IF Missing(tx, key_fields[i]) THEN <<>> ELSE str(tx[key_fields[i]])])

\* two records equal but for the form a missing key field takes
SameButForMissingForm(tx, ty) ==
  \A f \in DOMAIN tx \cup DOMAIN ty :
    \/ f \in Range(key_fields) /\ Missing(tx, f) /\ Missing(ty, f)
    \/ f \in DOMAIN tx /\ f \in DOMAIN ty /\ tx[f] = ty[f]

\* C14: a key field that is absent, None or the empty string contributes the
\* empty string to the key, so two records that differ only in which of the
\* three forms a key field takes are indexed under the same key.
C14_MissingKeyFieldIsEmpty ==
  Done =>
    /\ DOMAIN locals.transactions_a_dict = {KeyWithEmptyForMissing(transactions_a[1])}
    /\ DOMAIN locals.transactions_b_dict = {KeyWithEmptyForMissing(transactions_b[1])}
    /\ SameButForMissingForm(transactions_a[1], transactions_b[1]) =>
         DOMAIN locals.transactions_a_dict = DOMAIN locals.transactions_b_dict

\* the string forms of the key-field values of a record, in key-field order
KeyStrings(tx) ==
  [i \in 1..Len(key_fields) |-> str(Get(tx, key_fields[i], PyStr(<<>>)))]

HasDelimiter(strings) ==
  \E i \in 1..Len(strings) : \E n \in 1..Len(strings[i]) : strings[i][n] = "|"

\* C15: two records whose key fields have pairwise the same string forms
\* are indexed under the same key, whatever their other fields hold; and
\* when no key-field string of either holds the delimiter, two records
\* indexed under the same key have pairwise the same key-field strings.
C15_KeyFromKeyStringsOnly ==
  Done =>
    LET tx_a == transactions_a[1]
        tx_b == transactions_b[1]
        same_key == DOMAIN locals.transactions_a_dict = DOMAIN locals.transactions_b_dict
    IN  /\ Cardinality(DOMAIN locals.transactions_a_dict) = 1
        /\ Cardinality(DOMAIN locals.transactions_b_dict) = 1
        /\ KeyStrings(tx_a) = KeyStrings(tx_b) => same_key
        /\ same_key /\ ~HasDelimiter(KeyStrings(tx_a)) /\ ~HasDelimiter(KeyStrings(tx_b)) =>
             KeyStrings(tx_a) = KeyStrings(tx_b)

\* the same key for an int and a str key field and different amounts
C15_Witness ==
  /\ pc = "done"
  /\ key_fields = <<"id", "ref">>
  /\ transactions_a = <<Record([id |-> PyInt(1), ref |-> PyStr(<<>>), amount |-> PyInt(10)])>>
  /\ transactions_b = <<Record([id |-> PyStr(<<"1">>), ref |-> Absent, amount |-> PyInt(12)])>>
  /\ locals.keys_common = {<<"1", "|">>}
  /\ Len(results.mismatches) = 1

\* without the proviso the second half fails: "1|" and "1" against "1" and "|1"
C15_DelimiterCollision ==
  /\ pc = "done"
  /\ locals.keys_common # {}
  /\ KeyStrings(transactions_a[1]) # KeyStrings(transactions_b[1])

\* the entries of a list of records that the run indexes under key k
RecordsWithKey(list, k) == {i \in 1..Len(list) : generate_key(list[i], key_fields) = k}

\* C16: only_in_a holds, for every key found only in A, exactly one entry,
\* the indexed record of A for that key as it is, and no entry for any other
\* key; likewise only_in_b.  With B empty, only_in_a holds every indexed
\* record of A and only_in_b is empty.
C16_OneSidedListsExact ==
  Done =>
    /\ \A k \in locals.keys_only_a :
         /\ Cardinality(RecordsWithKey(results.only_in_a, k)) = 1
         /\ \A i \in RecordsWithKey(results.only_in_a, k) :
              results.only_in_a[i] = locals.transactions_a_dict[k]
    /\ Len(results.only_in_a) = Cardinality(locals.keys_only_a)
    /\ \A k \in locals.keys_only_b :
         /\ Cardinality(RecordsWithKey(results.only_in_b, k)) = 1
         /\ \A i \in RecordsWithKey(results.only_in_b, k) :
              results.only_in_b[i] = locals.transactions_b_dict[k]
    /\ Len(results.only_in_b) = Cardinality(locals.keys_only_b)
    /\ transactions_b = <<>> =>
         /\ Range(results.only_in_a) = Values(locals.transactions_a_dict)
         /\ results.only_in_b = <<>>

\* two records of A under two keys, nothing in B
C16_Witness ==
  /\ pc = "done"
  /\ transactions_b = <<>>
  /\ Len(transactions_a) = 2
  /\ Len(results.only_in_a) = 2
  /\ results.only_in_b = <<>>

\* ------------------------------------------------------------------------
\* reconcile and generate_report over two sources of one record each, the
\* field values those whose json text needs care
\* ------------------------------------------------------------------------
JsonValues ==
  { PyNone, PyBool(TRUE), PyBool(FALSE),
    PyInt(0), PyInt(0 - 7), PyInt(10),
    PyFloat(125), PyFloat(10000), PyFloat(10010),
    PyStr(<<>>), PyStr(<<"1">>), PyStr(<<"1", "0", ".", "0">>),
    PyStr(<<"n", "u", "l", "l">>), PyStr(<<"\"">>), PyStr(<<"a", "\"", "b">>),
    PyStr(<<"\\", "n">>), PyStr(<<"\n">>) }

InitJson ==
  /\ \E v \in JsonValues, w \in JsonValues, i \in {<<"1">>, <<"2">>} :
       /\ source_a = JsonSource("A", <<[id |-> PyStr(<<"1">>), amount |-> v]>>)
       /\ source_b = JsonSource("B", <<[id |-> PyStr(i), amount |-> w]>>)
  /\ key_fields = <<"id">>
  /\ comparison_fields = [given |-> TRUE, fields |-> <<"amount">>]
  /\ ReadyToReconcile

SpecJson == InitJson /\ [][Next]_vars

\* json.loads of the Python library, on the document json_dumps builds
DigitValue(c) ==
  CASE c = "0" -> 0 [] c = "1" -> 1 [] c = "2" -> 2 [] c = "3" -> 3 [] c = "4" -> 4
    [] c = "5" -> 5 [] c = "6" -> 6 [] c = "7" -> 7 [] c = "8" -> 8 [] c = "9" -> 9

RECURSIVE ParseNat(_)
ParseNat(s) ==
  IF Len(s) = 1 THEN DigitValue(s[1])
  ELSE 10 * ParseNat(SubSeq(s, 1, Len(s) - 1)) + DigitValue(s[Len(s)])

ParseInt(s) == IF Head(s) = "-" THEN 0 - ParseNat(Tail(s)) ELSE ParseNat(s)

\* the thousandths a fractional part of one to three digits stands for
ParseFrac(s) ==
  CASE Len(s) = 1 -> 100 * DigitValue(s[1])
    [] Len(s) = 2 -> 100 * DigitValue(s[1]) + 10 * DigitValue(s[2])
    [] Len(s) = 3 -> 100 * DigitValue(s[1]) + 10 * DigitValue(s[2]) + DigitValue(s[3])

PointAt(s) == CHOOSE n \in 1..Len(s) : s[n] = "."

ParseFloat(s) ==
  LET whole == SubSeq(s, 1, PointAt(s) - 1)
      frac == SubSeq(s, PointAt(s) + 1, Len(s))
  IN  IF Head(s) = "-"
      THEN 0 - (1000 * ParseNat(Tail(whole)) + ParseFrac(frac))
      ELSE 1000 * ParseNat(whole) + ParseFrac(frac)

RECURSIVE json_unescape(_)
json_unescape(s) ==
  IF s = <<>> THEN <<>>
  ELSE IF Head(s) = "\\" /\ Len(s) >= 2
  THEN (CASE s[2] = "n" -> <<"\n">>
          [] s[2] = "t" -> <<"\t">>
          [] OTHER -> <<s[2]>>)
       \o json_unescape(SubSeq(s, 3, Len(s)))
  ELSE <<Head(s)>> \o json_unescape(Tail(s))

json_parse_scalar(text) ==
  IF text = <<"n", "u", "l", "l">> THEN PyNone
  ELSE IF text = <<"t", "r", "u", "e">> THEN PyBool(TRUE)
  ELSE IF text = <<"f", "a", "l", "s", "e">> THEN PyBool(FALSE)
  ELSE IF Head(text) = "\"" THEN PyStr(json_unescape(SubSeq(text, 2, Len(text) - 1)))
  ELSE IF \E n \in 1..Len(text) : text[n] = "." THEN PyFloat(ParseFloat(text))
  ELSE PyInt(ParseInt(text))

json_parse_object(object) == [f \in DOMAIN object |-> json_parse_scalar(object[f])]

json_loads(body) ==
  [ start_date |-> body.start_date,
    end_date |-> body.end_date,
    source_a |-> body.source_a,
    source_b |-> body.source_b,
    summary |-> [f \in DOMAIN body.summary |-> ParseInt(body.summary[f])],
    mismatches |->
      [i \in 1..Len(body.mismatches) |->
         [ key |-> json_parse_scalar(body.mismatches[i].key).v,
           transaction_a |-> json_parse_object(body.mismatches[i].transaction_a),
           transaction_b |-> json_parse_object(body.mismatches[i].transaction_b),
           mismatches |->
             [j \in 1..Len(body.mismatches[i].mismatches) |->
                [ field |-> body.mismatches[i].mismatches[j].field,
                  value_a |-> json_parse_scalar(body.mismatches[i].mismatches[j].value_a),
                  value_b |-> json_parse_scalar(body.mismatches[i].mismatches[j].value_b) ]] ]],
    only_in_a |-> [i \in 1..Len(body.only_in_a) |-> json_parse_object(body.only_in_a[i])],
    only_in_b |-> [i \in 1..Len(body.only_in_b) |-> json_parse_object(body.only_in_b[i])] ]

\* C17: parsing the json report gives back the summary counts and the
\* mismatch, only_in_a and only_in_b entries of the result rendered, values
\* and their types included.
C17_JsonRoundTrip ==
  pc = "reported" /\ format = "json" =>
    /\ report.kind = "json"
    /\ json_loads(report.body).summary = results.summary
    /\ json_loads(report.body).mismatches = results.mismatches
    /\ json_loads(report.body).only_in_a = results.only_in_a
    /\ json_loads(report.body).only_in_b = results.only_in_b

\* a mismatch between a str that needs escaping and a float, rendered
C17_Witness ==
  /\ pc = "reported"
  /\ format = "json"
  /\ Len(results.mismatches) = 1
  /\ results.mismatches[1].mismatches
       = <<[field |-> "amount", value_a |-> PyStr(<<"\\", "n">>), value_b |-> PyFloat(10010)]>>
  /\ report.body.mismatches[1].mismatches[1].value_a = <<"\"", "\\", "\\", "n", "\"">>
  /\ report.body.mismatches[1].mismatches[1].value_b = <<"1", "0", ".", "0", "1">>

\* ------------------------------------------------------------------------
\* generate_report on the result of a reconciliation with long lists
\* ------------------------------------------------------------------------
MaxListLen == 11

\* the record with key n, as source A and as source B hold it
LongRecord(n, amount) == [id |-> PyStr(NatStr(n)), amount |-> PyInt(amount)]

LongMismatch(n) ==
  [ key |-> NatStr(n),
    transaction_a |-> LongRecord(n, n),
    transaction_b |-> LongRecord(n, 0),
    mismatches |-> <<[field |-> "amount", value_a |-> PyInt(n), value_b |-> PyInt(0)]>> ]

\* what reconcile returns over sources A and B when the keys 1..both are
\* common and mismatched, the next only_a keys are found in A alone and
\* the next only_b keys in B alone
LongResults(both, only_a, only_b) ==
  [ start_date |-> START_DATE,
    end_date |-> END_DATE,
    source_a |-> "A",
    source_b |-> "B",
    summary |-> [ total_a |-> both + only_a, total_b |-> both + only_b, matches |-> 0,
                  mismatches |-> both, only_in_a |-> only_a, only_in_b |-> only_b ],
    mismatches |-> [i \in 1..both |-> LongMismatch(i)],
    only_in_a |-> [i \in 1..only_a |-> LongRecord(both + i, 1)],
    only_in_b |-> [i \in 1..only_b |-> LongRecord(both + only_a + i, 1)] ]

\* reconcile has returned
InitLong ==
  /\ \E both \in 0..MaxListLen, only_a \in 0..MaxListLen, only_b \in 0..MaxListLen :
       /\ results = LongResults(both, only_a, only_b)
       /\ transactions_a = [i \in 1..(both + only_a) |->
                              IF i <= both THEN LongRecord(i, i) ELSE LongRecord(i, 1)]
       /\ transactions_b = [i \in 1..(both + only_b) |->
                              IF i <= both THEN LongRecord(i, 0)
                              ELSE LongRecord(only_a + i, 1)]
  /\ source_a = JsonSource("A", transactions_a)
  /\ source_b = JsonSource("B", transactions_b)
  /\ key_fields = <<"id">>
  /\ comparison_fields = [given |-> TRUE, fields |-> <<"amount">>]
  /\ pc = "done"
  /\ calls_a = 1
  /\ calls_b = 1
  /\ locals = NoLocals
  /\ format = ""
  /\ report = NoReport
  /\ run = 1
  /\ first = NoResults
  /\ BesideReconcileIdle

\* generate_report, and generate_report once more
NextLong ==
  \/ GenerateReport
  \/ GenerateReportAgain

SpecLong == InitLong /\ [][NextLong]_vars

\* the text shows entry i of the list of mismatches
ShowsMismatch(shown, i, entry) ==
  /\ shown.number = i
  /\ shown.key = entry.key
  /\ Len(shown.fields) = Len(entry.mismatches)
  /\ \A j \in 1..Len(entry.mismatches) :
       /\ shown.fields[j].field = entry.mismatches[j].field
       /\ shown.fields[j].value_a = str(entry.mismatches[j].value_a)
       /\ shown.fields[j].value_b = str(entry.mismatches[j].value_b)

\* the text shows entry i of a list of one-sided records
ShowsTransaction(shown, i, tx) ==
  /\ shown.number = i
  /\ shown.parts = format_transaction(tx, key_fields)

\* the truncation notice of a list of length n
NoticeFor(notice, n) == IF n > 10 THEN notice = <<n - 10>> ELSE notice = <<>>

\* C18: the text report shows, of each of the three detail lists of length
\* n, the first min(n, 10) entries in list order, and prints the notice
\* "... and N more" with N = n - 10 exactly when n > 10.
C18_TextShowsFirstTen ==
  pc = "reported" /\ report.kind = "text" =>
    /\ Len(report.mismatches) = Min(Len(results.mismatches), 10)
    /\ \A i \in 1..Len(report.mismatches) :
         ShowsMismatch(report.mismatches[i], i, results.mismatches[i])
    /\ NoticeFor(report.more_mismatches, Len(results.mismatches))
    /\ Len(report.only_in_a) = Min(Len(results.only_in_a), 10)
    /\ \A i \in 1..Len(report.only_in_a) :
         ShowsTransaction(report.only_in_a[i], i, results.only_in_a[i])
    /\ NoticeFor(report.more_only_in_a, Len(results.only_in_a))
    /\ Len(report.only_in_b) = Min(Len(results.only_in_b), 10)
    /\ \A i \in 1..Len(report.only_in_b) :
         ShowsTransaction(report.only_in_b[i], i, results.only_in_b[i])
    /\ NoticeFor(report.more_only_in_b, Len(results.only_in_b))

\* eleven mismatches, ten records only in A, three only in B
C18_Witness ==
  /\ pc = "reported"
  /\ report.kind = "text"
  /\ Len(results.mismatches) = 11
  /\ Len(report.mismatches) = 10
  /\ report.more_mismatches = <<1>>
  /\ Len(results.only_in_a) = 10
  /\ Len(report.only_in_a) = 10
  /\ report.more_only_in_a = <<>>
  /\ Len(report.only_in_b) = 3

NumThreads == 2
MaxLimit == 2
MaxWindow == 2
MaxTime == 2

Threads == 1..NumThreads

ApiKeys == {"key_1", "key_2"}

\* a thread outside is_allowed
NotCalling == [pc |-> "idle", api_key |-> "", current_time |-> 0]

\* RateLimiter.__init__(limit, window)
InitLimiter ==
  /\ limit \in 1..MaxLimit
  /\ window \in 1..MaxWindow
  /\ requests = [k \in ApiKeys |-> <<>>]
  /\ lock = 0
  /\ now = 0
  /\ threads = [t \in Threads |-> NotCalling]
  /\ granted = [k \in ApiKeys |-> <<>>]
  /\ BesideLimiterIdle

\* variant: the body of is_allowed is entered without the lock
Enter_unlocked(t, k) ==
  /\ threads[t].pc = "idle"
  /\ threads' = [threads EXCEPT ![t] = [pc |-> "read_time", api_key |-> k, current_time |-> 0]]
  /\ UNCHANGED <<limit, window, requests, lock, now, granted, beside_limiter>>

\* line 35: a thread calls is_allowed(api_key) and enters the with block,
\* which it does once the lock is free
Enter(t, k) ==
  /\ threads[t].pc = "idle"
  /\ lock \in {0, t}
  /\ lock' = t
  /\ threads' = [threads EXCEPT ![t] = [pc |-> "read_time", api_key |-> k, current_time |-> 0]]
  /\ UNCHANGED <<limit, window, requests, now, granted, beside_limiter>>

\* line 36: current_time = time.time()
ReadTime(t) ==
  /\ threads[t].pc = "read_time"
  /\ threads' = [threads EXCEPT ![t].pc = "prune", ![t].current_time = now]
  /\ UNCHANGED <<limit, window, requests, lock, now, granted, beside_limiter>>

\* the timestamps of a list that lie inside the window ending at current_time
inside_window(timestamps, current_time) ==
  SelectSeq(timestamps, LAMBDA timestamp : current_time - timestamp < window)

\* lines 39-42
Prune(t) ==
  /\ threads[t].pc = "prune"
  /\ requests' = [requests EXCEPT ![threads[t].api_key] =
                    inside_window(@, threads[t].current_time)]
  /\ threads' = [threads EXCEPT ![t].pc = "check"]
  /\ UNCHANGED <<limit, window, lock, now, granted, beside_limiter>>

\* lines 45 and 49: the test, and return False leaving the with block
Check(t) ==
  /\ threads[t].pc = "check"
  /\ IF Len(requests[threads[t].api_key]) < limit
     THEN /\ threads' = [threads EXCEPT ![t].pc = "append"]
          /\ UNCHANGED lock
     ELSE /\ threads' = [threads EXCEPT ![t] = NotCalling]
          /\ lock' = 0
  /\ UNCHANGED <<limit, window, requests, now, granted, beside_limiter>>

\* lines 46-47: the append, and return True leaving the with block
AppendAndReturn(t) ==
  /\ threads[t].pc = "append"
  /\ requests' = [requests EXCEPT ![threads[t].api_key] = Append(@, threads[t].current_time)]
  /\ granted' = [granted EXCEPT ![threads[t].api_key] = Append(@, threads[t].current_time)]
  /\ threads' = [threads EXCEPT ![t] = NotCalling]
  /\ lock' = 0
  /\ UNCHANGED <<limit, window, now, beside_limiter>>

\* time passes
Tick ==
  /\ now < MaxTime
  /\ now' = now + 1
  /\ UNCHANGED <<limit, window, requests, lock, threads, granted, beside_limiter>>

NextLimiter ==
  \/ \E t \in Threads, k \in ApiKeys : Enter(t, k)
  \/ \E t \in Threads : ReadTime(t)
  \/ \E t \in Threads : Prune(t)
  \/ \E t \in Threads : Check(t)
  \/ \E t \in Threads : AppendAndReturn(t)
  \/ Tick

SpecLimiter == InitLimiter /\ [][NextLimiter]_vars

\* the calls granted for an API key with a timestamp from start up to, not
\* including, start + window
GrantedInWindow(k, start) ==
  {i \in 1..Len(granted[k]) : start <= granted[k][i] /\ granted[k][i] < start + window}

\* C20: whatever the interleaving of the threads, the is_allowed calls of one
\* API key that returned True with a timestamp inside any one window of
\* `window` seconds number at most `limit`; and what a call tests against
\* `limit` is the number of granted calls of its own API key in the window
\* that ends at its timestamp, so the calls of other API keys do not count
\* against it.  The time of a call is the timestamp is_allowed takes for it.
C20_AtMostLimitPerWindow ==
  /\ \A k \in DOMAIN granted : \A start \in 0..now :
       Cardinality(GrantedInWindow(k, start)) <= limit
  /\ \A t \in DOMAIN threads :
       threads[t].pc = "check" =>
         Len(requests[threads[t].api_key])
           = Cardinality(GrantedInWindow(threads[t].api_key,
                                         threads[t].current_time - window + 1))

\* a call about to be refused for a key at its limit, after a call of the
\* other key was granted at the same time
C20_Witness ==
  /\ limit = 2
  /\ window = 2
  /\ threads[1].pc = "check"
  /\ threads[1].api_key = "key_1"
  /\ threads[1].current_time = 2
  /\ requests["key_1"] = <<1, 2>>
  /\ granted["key_1"] = <<0, 1, 2>>
  /\ granted["key_2"] = <<2>>

\* ------------------------------------------------------------------------
\* PaymentProcessor and IdempotencyStore of src/23_idempotency.py.
\* datetime.now() is a clock counted in hours; uuid4 values are numbered in
\* the order they are drawn, no two alike.
\* ------------------------------------------------------------------------
NumCallers == 2
MaxExpiration == 2
MaxHours == 3
MaxCalls == 3

IdempotencyKeys == {"idempkey_1", "idempkey_2"}

\* no entry of self.store under a key
NoEntry == [present |-> FALSE, transaction_id |-> 0, processed_at |-> 0, created_at |-> 0]

\* a caller outside process_payment
NotPaying == [pc |-> "idle", idempotency_key |-> "", checked_at |-> 0, transaction_id |-> 0]

\* PaymentProcessor.__init__, IdempotencyStore.__init__(expiration_hours)
InitStore ==
  /\ store = [k \in IdempotencyKeys |-> NoEntry]
  /\ expiration_hours \in 1..MaxExpiration
  /\ clock_hours = 0
  /\ uuids = 0
  /\ history = <<>>
  /\ BesidePaymentIdle

\* one caller: its process_payment calls follow one another
InitPaymentsInSequence ==
  /\ InitStore
  /\ callers = [c \in {1} |-> NotPaying]

\* concurrent callers
InitPaymentsConcurrent ==
  /\ InitStore
  /\ callers = [c \in 1..NumCallers |-> NotPaying]

CallsStarted == Len(history) + Cardinality({c \in DOMAIN callers : callers[c].pc # "idle"})

\* process_payment(payment_data, idempotency_key) is called
CallProcessPayment(c, k) ==
  /\ callers[c].pc = "idle"
  /\ CallsStarted < MaxCalls
  /\ callers' = [callers EXCEPT ![c] = [NotPaying EXCEPT !.pc = "get_result",
                                                        !.idempotency_key = k]]
  /\ UNCHANGED <<store, expiration_hours, clock_hours, uuids, history, beside_payment>>

\* variant: an entry expires once it is expiration_hours old
expired_at_limit(created_at) == clock_hours - created_at >= expiration_hours

\* line 23: datetime.now() - created_at > timedelta(hours=self.expiration_hours)
expired(created_at) == clock_hours - created_at > expiration_hours

\* the record of a call that has returned
Returned_call(c, transaction_id, idempotent) ==
  [ caller |-> c,
    idempotency_key |-> callers[c].idempotency_key,
    checked_at |-> IF idempotent THEN clock_hours ELSE callers[c].checked_at,
    returned_at |-> clock_hours,
    transaction_id |-> transaction_id,
    ran |-> callers[c].transaction_id # 0,
    idempotent |-> idempotent ]

\* lines 67-69 with get_result (lines 14-27): the stored result is looked
\* up, an expired entry deleted; a result found is returned marked
\* idempotent
GetResult(c) ==
  /\ callers[c].pc = "get_result"
  /\ LET key == callers[c].idempotency_key
         entry == store[key]
     IN  IF ~entry.present
         THEN /\ callers' = [callers EXCEPT ![c].pc = "process", ![c].checked_at = clock_hours]
              /\ UNCHANGED <<store, history>>
         ELSE IF expired(entry.created_at)
         THEN /\ store' = [store EXCEPT ![key] = NoEntry]
              /\ callers' = [callers EXCEPT ![c].pc = "process", ![c].checked_at = clock_hours]
              /\ UNCHANGED history
         ELSE /\ history' = Append(history, Returned_call(c, entry.transaction_id, TRUE))
              /\ callers' = [callers EXCEPT ![c] = NotPaying]
              /\ UNCHANGED store
  /\ UNCHANGED <<expiration_hours, clock_hours, uuids, beside_payment>>

\* line 72: result = self._do_process_payment(payment_data)
DoProcessPayment(c) ==
  /\ callers[c].pc = "process"
  /\ uuids' = uuids + 1
  /\ callers' = [callers EXCEPT ![c].pc = "store_result", ![c].transaction_id = uuids + 1]
  /\ UNCHANGED <<store, expiration_hours, clock_hours, history, beside_payment>>

\* lines 75-77: store_result, and the result returned marked not idempotent
StoreResult(c) ==
  /\ callers[c].pc = "store_result"
  /\ store' = [store EXCEPT ![callers[c].idempotency_key] =
                 [ present |-> TRUE, transaction_id |-> callers[c].transaction_id,
                   processed_at |-> 0, created_at |-> clock_hours ]]
  /\ history' = Append(history, Returned_call(c, callers[c].transaction_id, FALSE))
  /\ callers' = [callers EXCEPT ![c] = NotPaying]
  /\ UNCHANGED <<expiration_hours, clock_hours, uuids, beside_payment>>

\* an hour passes
TickHour ==
  /\ clock_hours < MaxHours
  /\ clock_hours' = clock_hours + 1
  /\ UNCHANGED <<store, expiration_hours, callers, uuids, history, beside_payment>>

NextPayments ==
  \/ \E c \in DOMAIN callers, k \in IdempotencyKeys : CallProcessPayment(c, k)
  \/ \E c \in DOMAIN callers : GetResult(c)
  \/ \E c \in DOMAIN callers : DoProcessPayment(c)
  \/ \E c \in DOMAIN callers : StoreResult(c)
  \/ TickHour

SpecPaymentsInSequence == InitPaymentsInSequence /\ [][NextPayments]_vars

SpecPaymentsConcurrent == InitPaymentsConcurrent /\ [][NextPayments]_vars

\* the returned calls made with a key before the call numbered j
EarlierWithKey(j) ==
  {i \in 1..(j - 1) : history[i].idempotency_key = history[j].idempotency_key}

\* C21: of two process_payment calls in sequence with one idempotency key,
\* the second made no more than expiration_hours after the first stored
\* its result, the first ran _do_process_payment and is marked not
\* idempotent, the second did not run it and returns the transaction_id of
\* the first marked idempotent.
C21_SecondCallReturnsStored ==
  \A j \in 1..Len(history) :
    /\ EarlierWithKey(j) = {} => history[j].ran /\ ~history[j].idempotent
    /\ \A i \in EarlierWithKey(j) :
         /\ history[i].ran
         /\ history[j].checked_at - history[i].returned_at <= expiration_hours
         => /\ ~history[j].ran
            /\ history[j].idempotent
            /\ history[j].transaction_id = history[i].transaction_id

\* a second call with the key of the first, exactly expiration_hours later
C21_Witness ==
  /\ Len(history) = 2
  /\ history[1].idempotency_key = history[2].idempotency_key
  /\ history[1].ran /\ ~history[1].idempotent
  /\ ~history[2].ran /\ history[2].idempotent
  /\ history[2].transaction_id = history[1].transaction_id
  /\ history[2].checked_at - history[1].returned_at = expiration_hours
  /\ uuids = 1

\* C30: of the process_payment calls made concurrently with one idempotency
\* key, a call that looks the key up no earlier than a call that ran
\* _do_process_payment did, and no more than expiration_hours after that
\* call stored its result, did not run _do_process_payment itself and
\* returned the same transaction_id.
C30_ExecutedOncePerKey ==
  \A i, j \in 1..Len(history) :
    /\ i # j
    /\ history[i].idempotency_key = history[j].idempotency_key
    /\ history[i].ran
    /\ history[j].checked_at >= history[i].checked_at
    /\ history[j].checked_at - history[i].returned_at <= expiration_hours
    => /\ ~history[j].ran
       /\ history[i].transaction_id = history[j].transaction_id

\* ------------------------------------------------------------------------
\* retry_with_backoff of src/24_retrypattern.py: one call of the wrapper.
\* Delays are whole seconds and jitter a whole factor; func returns, raises
\* an exception of retryable_exceptions, or raises another exception.
\* ------------------------------------------------------------------------
MaxRetries == 2
MaxDelay == 2
MaxFactor == 2
MaxJitter == 1

\* how an invocation of func can end
Endings == {"returns", "raises_retryable", "raises_other"}

\* the wrapper has not returned or raised
NoOutcome == [kind |-> "", attempt |-> 0]

\* lines 7-8 and 22-23: the decorator arguments, and the wrapper entered
InitRetry ==
  /\ max_retries \in 0..MaxRetries
  /\ initial_delay \in 1..MaxDelay
  /\ backoff_factor \in 1..MaxFactor
  /\ jitter \in 0..MaxJitter
  /\ retries = 0
  /\ delay = initial_delay
  /\ sleep_time = 0
  /\ attempts = <<>>
  /\ retry_pc = "try"
  /\ outcome = NoOutcome
  /\ BesideRetryIdle

\* lines 26-28: func is invoked; its result is returned, an exception
\* outside retryable_exceptions propagates, a retryable one is caught
Attempt ==
  /\ retry_pc = "try"
  /\ \E ending \in Endings :
       /\ attempts' = Append(attempts, ending)
       /\ retry_pc' = CASE ending = "returns" -> "returned"
                        [] ending = "raises_retryable" -> "except"
                        [] ending = "raises_other" -> "raised"
       /\ outcome' = CASE ending = "returns" ->
                            [kind |-> "result", attempt |-> Len(attempts) + 1]
                       [] ending = "raises_retryable" -> outcome
                       [] ending = "raises_other" ->
                            [kind |-> "exception", attempt |-> Len(attempts) + 1]
  /\ UNCHANGED <<max_retries, initial_delay, backoff_factor, jitter, retries,
                 delay, sleep_time, beside_retry>>

\* variant: gives up when retries reaches max_retries
exhausted_at_limit(n) == n >= max_retries

\* line 30: if retries > max_retries
exhausted(n) == n > max_retries

\* lines 29-32: the retry is counted; past max_retries the exception caught
\* is raised again
CountRetry ==
  /\ retry_pc = "except"
  /\ retries' = retries + 1
  /\ IF exhausted(retries + 1)
     THEN /\ retry_pc' = "raised"
          /\ outcome' = [kind |-> "exception", attempt |-> Len(attempts)]
     ELSE /\ retry_pc' = "sleep"
          /\ UNCHANGED outcome
  /\ UNCHANGED <<max_retries, initial_delay, backoff_factor, jitter, delay,
                 sleep_time, attempts, beside_retry>>

\* lines 35-44: the wrapper sleeps delay plus jitter, the delay grows
Backoff ==
  /\ retry_pc = "sleep"
  /\ \E jitter_amount \in 0..(jitter * delay) :
       sleep_time' = delay + jitter_amount
  /\ delay' = delay * backoff_factor
  /\ retry_pc' = "try"
  /\ UNCHANGED <<max_retries, initial_delay, backoff_factor, jitter, retries,
                 attempts, outcome, beside_retry>>

NextRetry == Attempt \/ CountRetry \/ Backoff

\* func and time.sleep return and the calling thread keeps running: a step
\* of the wrapper that can be taken is taken
SpecRetry == InitRetry /\ [][NextRetry]_vars /\ WF_vars(NextRetry)

\* the wrapper has returned or raised
RetryOver == retry_pc \in {"returned", "raised"}

\* func was invoked at most max_retries + 1 times, no invocation follows
\* one that returned or raised a non-retryable exception, and a call that
\* is over returned the result or raised the exception of the last
\* invocation, a retryable exception only after max_retries retries
RetryContract ==
  /\ Len(attempts) <= max_retries + 1
  /\ \A i \in 1..(Len(attempts) - 1) : attempts[i] = "raises_retryable"
  /\ retry_pc = "returned" =>
       /\ attempts[Len(attempts)] = "returns"
       /\ outcome = [kind |-> "result", attempt |-> Len(attempts)]
  /\ retry_pc = "raised" =>
       /\ attempts[Len(attempts)] # "returns"
       /\ outcome = [kind |-> "exception", attempt |-> Len(attempts)]
       /\ attempts[Len(attempts)] = "raises_retryable" =>
            Len(attempts) = max_retries + 1
  /\ ~RetryOver =>
       /\ outcome = NoOutcome
       /\ \A i \in 1..Len(attempts) : attempts[i] = "raises_retryable"

\* C22: a function wrapped by retry_with_backoff is invoked at most
\* max_retries + 1 times per call and the call terminates; it returns the
\* result of the first invocation that succeeds, raises the exception of
\* the last invocation once max_retries retries have failed, and lets an
\* exception outside retryable_exceptions propagate from the invocation
\* that raised it.
C22_RetryBoundedAndTerminates == []RetryContract /\ <>RetryOver

\* every retry was used up and the last exception raised
C22_Witness ==
  /\ max_retries = MaxRetries
  /\ retry_pc = "raised"
  /\ Len(attempts) = max_retries + 1
  /\ attempts[Len(attempts)] = "raises_retryable"
  /\ retries = max_retries + 1

\* ------------------------------------------------------------------------
\* Order of the result lists
\* ------------------------------------------------------------------------
\* the printable characters, but the quote, the backslash and the
\* backquote, in code point order
CodePoints ==
  <<
     " ", "!", "#", "$", "%", "&", "'", "(", ")", "*", "+",
     ",", "-", ".", "/", "0", "1", "2", "3", "4", "5", "6", "7",
     "8", "9", ":", ";", "<", "=", ">", "?", "@", "A", "B", "C",
     "D", "E", "F", "G", "H", "I", "J", "K", "L", "M", "N", "O",
     "P", "Q", "R", "S", "T", "U", "V", "W", "X", "Y", "Z", "[",
     "]", "^", "_", "a", "b", "c", "d", "e", "f", "g",
     "h", "i", "j", "k", "l", "m", "n", "o", "p", "q", "r", "s",
     "t", "u", "v", "w", "x", "y", "z", "{", "|", "}", "~" >>

Ord(c) == CHOOSE i \in 1..Len(CodePoints) : CodePoints[i] = c

\* a < b of two Python strings
StrBefore(a, b) ==
  \E i \in 1..(Len(b)) :
    /\ \A j \in 1..(i - 1) : j <= Len(a) /\ a[j] = b[j]
    /\ \/ i = Len(a) + 1
       \/ i <= Len(a) /\ Ord(a[i]) < Ord(b[i])

\* the keys of a list come in ascending order
Ascending(keys) == \A i \in 1..(Len(keys) - 1) : StrBefore(keys[i], keys[i + 1])

\* C23: when reconcile returns, the mismatches, only_in_a and only_in_b
\* lists are each in ascending order of key.
C23_ListsAscendingByKey ==
  Done =>
    /\ Ascending([i \in 1..Len(results.mismatches) |-> results.mismatches[i].key])
    /\ Ascending([i \in 1..Len(results.only_in_a) |->
                    generate_key(results.only_in_a[i], key_fields)])
    /\ Ascending([i \in 1..Len(results.only_in_b) |->
                    generate_key(results.only_in_b[i], key_fields)])

\* ------------------------------------------------------------------------
\* Summary counts
\* ------------------------------------------------------------------------
\* C24: when reconcile returns, summary.mismatches, summary.only_in_a and
\* summary.only_in_b are the lengths of the lists of those names;
\* matches + mismatches + only_in_a is the number of distinct keys of A, at
\* most total_a and equal to it when no two records of A share a key, and
\* matches + mismatches + only_in_b is the same for B.
C24_SummaryAgreesWithDetail ==
  Done =>
    LET summary == results.summary
        distinct_a == Cardinality(KeysOf(transactions_a))
        distinct_b == Cardinality(KeysOf(transactions_b))
    IN  /\ summary.mismatches = Len(results.mismatches)
        /\ summary.only_in_a = Len(results.only_in_a)
        /\ summary.only_in_b = Len(results.only_in_b)
        /\ summary.total_a = Len(transactions_a)
        /\ summary.total_b = Len(transactions_b)
        /\ summary.matches + summary.mismatches + summary.only_in_a = distinct_a
        /\ summary.matches + summary.mismatches + summary.only_in_b = distinct_b
        /\ distinct_a <= summary.total_a
        /\ distinct_b <= summary.total_b
        /\ (\A i, j \in 1..Len(transactions_a) :
              generate_key(transactions_a[i], key_fields)
                = generate_key(transactions_a[j], key_fields) => i = j)
           => distinct_a = summary.total_a
        /\ (\A i, j \in 1..Len(transactions_b) :
              generate_key(transactions_b[i], key_fields)
                = generate_key(transactions_b[j], key_fields) => i = j)
           => distinct_b = summary.total_b

\* two records of A share a key that B holds with another amount, and B
\* has a key of its own
C24_Witness ==
  /\ Done
  /\ results.summary.total_a = 2
  /\ Cardinality(KeysOf(transactions_a)) = 1
  /\ results.summary.mismatches = 1
  /\ results.summary.matches = 0
  /\ results.summary.only_in_b = 1

\* ------------------------------------------------------------------------
\* reconcile over two sources of one record each, the same key on both
\* sides, the comparison field a number on one side and a string on the
\* other (a CSV source delivers every field as a string)
\* ------------------------------------------------------------------------
Numbers ==
  {PyInt(n) : n \in (0 - MaxInt)..MaxInt}
  \cup {PyFloat(m) : m \in {0, 10000, 10001, 10006, 10125, 12000}}

\* the text of a number, the same with a space before it, and other strings
Texts ==
  {PyStr(str(n)) : n \in Numbers}
  \cup {PyStr(<<" ">> \o str(n)) : n \in Numbers}
  \cup {PyStr(s) : s \in Strings}

MixedPairs ==
  {<<WithAmount(n), WithAmount(s)>> : n \in Numbers, s \in Texts}
  \cup {<<WithAmount(s), WithAmount(n)>> : n \in Numbers, s \in Texts}

InitMixed ==
  /\ \E p \in MixedPairs :
       /\ source_a = JsonSource("A", <<p[1]>>)
       /\ source_b = JsonSource("B", <<p[2]>>)
  /\ key_fields = <<"id">>
  /\ comparison_fields = [given |-> TRUE, fields |-> <<"amount">>]
  /\ ReadyToReconcile

SpecMixed == InitMixed /\ [][NextReconcile]_vars

IsString(v) == v.t = "str"

\* C25: when reconcile returns, a comparison field of a common key that
\* holds a string in one record and a number in the other is reported as a
\* mismatch, whatever the string.
C25_StringAgainstNumberMismatches ==
  Done =>
    \A k \in locals.keys_common : \A f \in Range(locals.comparison_fields) :
      LET tx_a == locals.transactions_a_dict[k]
          tx_b == locals.transactions_b_dict[k]
      IN  /\ f \in DOMAIN tx_a
          /\ f \in DOMAIN tx_b
          /\ \/ IsString(tx_a[f]) /\ IsNumber(tx_b[f])
             \/ IsNumber(tx_a[f]) /\ IsString(tx_b[f])
          => FieldReported(k, f)

\* the string is the text of the number
C25_Witness ==
  /\ Done
  /\ \E k \in locals.keys_common :
       /\ locals.transactions_a_dict[k].amount = PyStr(<<"1", "0", ".", "0">>)
       /\ locals.transactions_b_dict[k].amount = PyFloat(10000)
       /\ FieldReported(k, "amount")

\* ------------------------------------------------------------------------
\* An empty comparison-field list
\* ------------------------------------------------------------------------
\* what reconcile may return over the fetched records when no
\* comparison-field list is passed
ReturnedWithoutList ==
  { r.results :
      r \in reconciled([start_date |-> START_DATE, end_date |-> END_DATE,
                        source_a |-> source_a.name, source_b |-> source_b.name],
                       transactions_a, transactions_b, key_fields,
                       [given |-> FALSE, fields |-> <<>>]) }

\* C26: when reconcile was passed an empty comparison-field list, the fields
\* compared are the default fields and the result is one reconcile returns
\* over the same records when passed no list.
C26_EmptyListIsDefault ==
  Done /\ comparison_fields.given /\ comparison_fields.fields = <<>> =>
    /\ Range(locals.comparison_fields)
         = default_comparison_fields(transactions_a, transactions_b, key_fields)
    /\ results \in ReturnedWithoutList

\* an empty list was passed and a field mismatch is reported all the same
C26_Witness ==
  /\ Done
  /\ comparison_fields.given
  /\ comparison_fields.fields = <<>>
  /\ Len(results.mismatches) = 1
  /\ results.mismatches[1].mismatches # <<>>

\* ------------------------------------------------------------------------
\* CircuitBreaker of src/22_circuitbreaker.py: calls of the wrapped function
\* one after another.  time.time() counts whole seconds; the wrapped
\* function returns, raises an exception of expected_exceptions, or raises
\* another exception, and may take a second to do so.
\* ------------------------------------------------------------------------
MaxThreshold == 2
MaxRecovery == 2
MaxFailureWindow == 2
MaxClock == 5

\* CircuitState
CLOSED == "closed"
OPEN == "open"
HALF_OPEN == "half-open"

\* the fields of the breaker a call reads and writes
Breaker ==
  [ state |-> state,
    failure_count |-> failure_count,
    last_failure_time |-> last_failure_time,
    last_state_change_time |-> last_state_change_time ]

\* no call has completed
NoCall == [outcome |-> "", invoked |-> FALSE, before |-> <<>>, entered |-> <<>>, at |-> 0, ended_at |-> 0]

\* CircuitBreaker.__init__ (lines 12-22)
InitBreaker ==
  /\ failure_threshold \in 1..MaxThreshold
  /\ recovery_timeout \in 1..MaxRecovery
  /\ failure_window \in 1..MaxFailureWindow
  /\ state = CLOSED
  /\ failure_count = 0
  /\ last_failure_time = 0
  /\ time_time = 1
  /\ last_state_change_time = 1
  /\ last_call = NoCall
  /\ BesideBreakerIdle

\* lines 42-44
transition_to_open(self, current_time) ==
  [self EXCEPT !.state = OPEN, !.last_state_change_time = current_time]

\* lines 47-49
transition_to_half_open(self, current_time) ==
  [self EXCEPT !.state = HALF_OPEN, !.last_state_change_time = current_time]

\* variant: the failure count survives the return to CLOSED
transition_to_closed_keeping_count(self, current_time) ==
  [self EXCEPT !.state = CLOSED, !.last_failure_time = 0,
               !.last_state_change_time = current_time]

\* lines 52-56
transition_to_closed(self, current_time) ==
  [self EXCEPT !.state = CLOSED, !.failure_count = 0, !.last_failure_time = 0,
               !.last_state_change_time = current_time]

\* lines 59-61
handle_success(self, current_time) ==
  IF self.state = HALF_OPEN THEN transition_to_closed(self, current_time) ELSE self

\* variant: the breaker opens once the count is above the threshold
trips_above(self) ==
  \/ self.state = HALF_OPEN
  \/ self.state = CLOSED /\ self.failure_count > failure_threshold

\* lines 73-74
trips(self) ==
  \/ self.state = HALF_OPEN
  \/ self.state = CLOSED /\ self.failure_count >= failure_threshold

\* lines 67-71: the count is reset when the last failure lies outside the
\* failure window, then the failure is counted
counted(self, current_time) ==
  [self EXCEPT
     !.failure_count =
       (IF self.last_failure_time # 0
           /\ current_time - self.last_failure_time > failure_window
        THEN 0 ELSE self.failure_count) + 1,
     !.last_failure_time = current_time]

\* lines 63-75
handle_failure(self, current_time) ==
  IF trips(counted(self, current_time))
  THEN transition_to_open(counted(self, current_time), current_time)
  ELSE counted(self, current_time)

\* variant: the recovery is over once recovery_timeout seconds have passed
recovery_elapsed_at_limit(self, current_time) ==
  current_time - self.last_state_change_time >= recovery_timeout

\* line 27
recovery_elapsed(self, current_time) ==
  current_time - self.last_state_change_time > recovery_timeout

\* the breaker takes the values of the record
Becomes(self) ==
  /\ state' = self.state
  /\ failure_count' = self.failure_count
  /\ last_failure_time' = self.last_failure_time
  /\ last_state_change_time' = self.last_state_change_time

\* lines 26-30: a call while OPEN within the recovery timeout is refused
CallRefused ==
  /\ state = OPEN
  /\ ~recovery_elapsed(Breaker, time_time)
  /\ last_call' = [ outcome |-> "CircuitBreakerOpenError", invoked |-> FALSE,
                    before |-> Breaker, entered |-> Breaker,
                    at |-> time_time, ended_at |-> time_time ]
  /\ UNCHANGED <<failure_threshold, recovery_timeout, failure_window, state,
                 failure_count, last_failure_time, last_state_change_time,
                 time_time, beside_breaker>>

\* how the wrapped function can end
FuncEndings == {"returns", "raises_expected", "raises_other"}

\* the breaker as the wrapped function finds it (lines 26-28)
entered_as(self, current_time) ==
  IF self.state = OPEN THEN transition_to_half_open(self, current_time) ELSE self

\* the breaker after the wrapped function ended (lines 32-38)
left_as(self, ending, current_time) ==
  CASE ending = "returns" -> handle_success(self, current_time)
    [] ending = "raises_expected" -> handle_failure(self, current_time)
    [] ending = "raises_other" -> self

\* lines 26-38: a call that reaches the wrapped function
CallThrough ==
  /\ state = OPEN => recovery_elapsed(Breaker, time_time)
  /\ \E ending \in FuncEndings, took \in 0..1 :
       /\ time_time + took <= MaxClock
       /\ time_time' = time_time + took
       /\ Becomes(left_as(entered_as(Breaker, time_time), ending, time_time + took))
       /\ last_call' = [ outcome |-> ending, invoked |-> TRUE,
                         before |-> Breaker,
                         entered |-> entered_as(Breaker, time_time),
                         at |-> time_time, ended_at |-> time_time + took ]
  /\ UNCHANGED <<failure_threshold, recovery_timeout, failure_window, beside_breaker>>

\* a second passes between calls
TickSecond ==
  /\ time_time < MaxClock
  /\ time_time' = time_time + 1
  /\ UNCHANGED <<failure_threshold, recovery_timeout, failure_window, state,
                 failure_count, last_failure_time, last_state_change_time,
                 last_call, beside_breaker>>

NextBreaker == CallRefused \/ CallThrough \/ TickSecond

SpecBreaker == InitBreaker /\ [][NextBreaker]_vars

SomeCall == last_call # NoCall

\* C27: a call made while the breaker is OPEN and no more than
\* recovery_timeout seconds after it opened raises CircuitBreakerOpenError,
\* does not invoke the wrapped function and leaves state and failure_count
\* as they were.
C27_OpenRefusesCalls ==
  /\ SomeCall
  /\ last_call.before.state = OPEN
  /\ last_call.at - last_call.before.last_state_change_time <= recovery_timeout
  => /\ last_call.outcome = "CircuitBreakerOpenError"
     /\ ~last_call.invoked
     /\ Breaker = last_call.before

\* a call exactly recovery_timeout seconds after the breaker opened
C27_Witness ==
  /\ SomeCall
  /\ last_call.before.state = OPEN
  /\ last_call.at - last_call.before.last_state_change_time = recovery_timeout
  /\ last_call.outcome = "CircuitBreakerOpenError"
  /\ state = OPEN

\* C28: after every completed call, a CLOSED breaker has a failure_count
\* below failure_threshold, and an expected failure in CLOSED that brings
\* the count to the threshold has opened the breaker.
C28_ClosedBelowThreshold ==
  /\ state = CLOSED => failure_count < failure_threshold
  /\ /\ SomeCall
     /\ last_call.outcome = "raises_expected"
     /\ last_call.before.state = CLOSED
     /\ failure_count >= failure_threshold
     => state = OPEN

\* the second failure within the failure window opens a breaker of
\* threshold 2
C28_Witness ==
  /\ SomeCall
  /\ failure_threshold = 2
  /\ last_call.outcome = "raises_expected"
  /\ last_call.before.state = CLOSED
  /\ last_call.before.failure_count = 1
  /\ failure_count = 2
  /\ state = OPEN

\* the last call was made in OPEN after the recovery timeout
Trial ==
  /\ SomeCall
  /\ last_call.before.state = OPEN
  /\ last_call.at - last_call.before.last_state_change_time > recovery_timeout

\* C29: the first call after the recovery timeout reaches the wrapped
\* function in HALF_OPEN; when it returns, the breaker is CLOSED with
\* failure_count 0; when it raises an expected exception, the breaker is
\* OPEN again whatever the count, opened at the time of the failure.
C29_HalfOpenTrial ==
  Trial =>
    /\ last_call.invoked
    /\ last_call.entered.state = HALF_OPEN
    /\ last_call.outcome = "returns" => state = CLOSED /\ failure_count = 0
    /\ last_call.outcome = "raises_expected" =>
         /\ state = OPEN
         /\ last_state_change_time = last_call.ended_at

\* a trial that failed with the count reset below the threshold
C29_Witness ==
  /\ Trial
  /\ last_call.outcome = "raises_expected"
  /\ failure_count < failure_threshold
  /\ state = OPEN
  /\ last_state_change_time = last_call.ended_at

\* ------------------------------------------------------------------------
\* WebhookVerifier of src/25_webhookverification.py.  Time is counted in
\* whole units, of which the cleanup interval and max_timestamp_diff are
\* multiples; verify runs to its end within one reading of the clock.
\* HMAC-SHA256 is taken to be free of collisions: a digest stands for the
\* key and the message it was computed from.
\* ------------------------------------------------------------------------
MaxDiff == 2
MaxCleanupInterval == 2
MaxNow == 3
MaxReplayChecks == 2

SECRET == "secret"

Payloads == {<<"a">>}

\* the X-Timestamp header of a delivery: absent, the text of a time, or
\* something that is not a number
NoHeader == <<>>

TimestampHeaders == {NatStr(n) : n \in 0..MaxNow} \cup {<<"x">>, NoHeader}

\* hmac.new(key, msg, sha256).hexdigest()
hexdigest(key, msg) == [key |-> key, msg |-> msg]

\* lines 45-66
compute_signature(payload, timestamp) == hexdigest(SECRET, timestamp \o <<".">> \o payload)

\* the X-Signature header of a delivery of the payload and timestamp:
\* absent, the sender's signature, or one made without the secret
SignatureHeaders(payload, timestamp) ==
  { NoHeader,
    compute_signature(payload, timestamp),
    hexdigest("guess", timestamp \o <<".">> \o payload) }

\* WebhookVerifier.__init__ (lines 34-43)
InitWebhook ==
  /\ max_timestamp_diff \in 1..MaxDiff
  /\ replay_protection \in BOOLEAN
  /\ cleanup_interval \in 1..MaxCleanupInterval
  /\ seen_signatures = <<>>
  /\ datetime_now = 0
  /\ last_cleanup = 0
  /\ accepted = {}
  /\ last_verify = <<>>
  /\ replay_checks = 0
  /\ BesideWebhookIdle

\* int(timestamp_str) does not raise ValueError
IsDecimal(timestamp_str) ==
  /\ timestamp_str # <<>>
  /\ \A i \in 1..Len(timestamp_str) :
       timestamp_str[i] \in {"0", "1", "2", "3", "4", "5", "6", "7", "8", "9"}

\* lines 68-88
is_valid_timestamp(timestamp_str, current_time) ==
  IF ~IsDecimal(timestamp_str) THEN FALSE
  ELSE LET webhook_time == ParseNat(timestamp_str)
           time_diff == IF current_time >= webhook_time
                        THEN current_time - webhook_time
                        ELSE webhook_time - current_time
       IN  time_diff <= max_timestamp_diff

\* variant: signatures older than max_timestamp_diff are dropped
expiration_single(current_time) == current_time - max_timestamp_diff

\* line 122
expiration(current_time) == current_time - 2 * max_timestamp_diff

\* lines 115-132: [seen, last_cleanup] after _cleanup_seen_signatures
cleanup_seen_signatures(seen, cleaned_at, current_time) ==
  IF current_time - cleaned_at < cleanup_interval
  THEN [seen |-> seen, last_cleanup |-> cleaned_at]
  ELSE [ seen |-> [sig \in {x \in DOMAIN seen : ~(seen[x] < expiration(current_time))}
                     |-> seen[sig]],
         last_cleanup |-> current_time ]

\* lines 106-113: the signature is looked up in the cleaned cache and
\* recorded when it is new
looked_up(signature, cleaned, current_time) ==
  IF signature \in DOMAIN cleaned.seen
  THEN [replay |-> TRUE, seen |-> cleaned.seen, last_cleanup |-> cleaned.last_cleanup]
  ELSE [ replay |-> FALSE,
         seen |-> [sig \in DOMAIN cleaned.seen \cup {signature} |->
                    IF sig = signature THEN current_time ELSE cleaned.seen[sig]],
         last_cleanup |-> cleaned.last_cleanup ]

\* lines 90-113: [replay, seen, last_cleanup] after is_replay
is_replay(signature, seen, cleaned_at, current_time) ==
  IF ~replay_protection
  THEN [replay |-> FALSE, seen |-> seen, last_cleanup |-> cleaned_at]
  ELSE looked_up(signature, cleanup_seen_signatures(seen, cleaned_at, current_time),
                 current_time)

\* lines 162-172: a replay is refused, any other request judged by its
\* signature
compared(payload, signature, timestamp, checked) ==
  IF checked.replay
  THEN [valid |-> FALSE, error |-> "Duplicate webhook detected (replay attack)",
        seen |-> checked.seen, last_cleanup |-> checked.last_cleanup]
  ELSE IF signature # compute_signature(payload, timestamp)
  THEN [valid |-> FALSE, error |-> "Invalid signature",
        seen |-> checked.seen, last_cleanup |-> checked.last_cleanup]
  ELSE [valid |-> TRUE, error |-> "",
        seen |-> checked.seen, last_cleanup |-> checked.last_cleanup]

\* lines 134-172: what verify returns and the cache it leaves
verify(payload, signature, timestamp, seen, cleaned_at, current_time) ==
  IF signature = NoHeader
  THEN [valid |-> FALSE, error |-> "Missing signature header",
        seen |-> seen, last_cleanup |-> cleaned_at]
  ELSE IF timestamp = NoHeader
  THEN [valid |-> FALSE, error |-> "Missing timestamp header",
        seen |-> seen, last_cleanup |-> cleaned_at]
  ELSE IF ~is_valid_timestamp(timestamp, current_time)
  THEN [valid |-> FALSE, error |-> "Invalid timestamp",
        seen |-> seen, last_cleanup |-> cleaned_at]
  ELSE compared(payload, signature, timestamp,
                is_replay(signature, seen, cleaned_at, current_time))

\* lines 148-159: the request passes the checks made before is_replay
reaches_is_replay(signature, timestamp, current_time) ==
  /\ signature # NoHeader
  /\ timestamp # NoHeader
  /\ is_valid_timestamp(timestamp, current_time)

\* the verifier after verify returned
Delivered(request, returned, checks) ==
  /\ replay_checks + checks <= MaxReplayChecks
  /\ replay_checks' = replay_checks + checks
  /\ seen_signatures' = returned.seen
  /\ last_cleanup' = returned.last_cleanup
  /\ accepted' = IF returned.valid THEN accepted \cup {request} ELSE accepted
  /\ last_verify' = [ valid |-> returned.valid,
                      error |-> returned.error,
                      accepted_before |-> request \in accepted,
                      in_cache |-> request.signature \in DOMAIN returned.seen ]

\* a request is delivered and verify called on it
Verify ==
  /\ \E payload \in Payloads, timestamp \in TimestampHeaders :
       \E signature \in SignatureHeaders(payload, timestamp) :
         Delivered([payload |-> payload, timestamp |-> timestamp, signature |-> signature],
                   verify(payload, signature, timestamp, seen_signatures,
                          last_cleanup, datetime_now),
                   IF reaches_is_replay(signature, timestamp, datetime_now) THEN 1 ELSE 0)
  /\ UNCHANGED <<max_timestamp_diff, replay_protection, cleanup_interval,
                 datetime_now, beside_webhook>>

\* time passes between deliveries
TickUnit ==
  /\ datetime_now < MaxNow
  /\ datetime_now' = datetime_now + 1
  /\ UNCHANGED <<max_timestamp_diff, replay_protection, seen_signatures,
                 cleanup_interval, last_cleanup, accepted, last_verify,
                 replay_checks, beside_webhook>>

NextWebhook == Verify \/ TickUnit

SpecWebhook == InitWebhook /\ [][NextWebhook]_vars

\* C31: with replay protection enabled, verify does not return valid for a
\* signed request (payload, timestamp, signature) it has returned valid for
\* before, whether or not the signature is still in the cache.
C31_ValidAtMostOnce ==
  replay_protection /\ last_verify # <<>> /\ last_verify.valid
    => ~last_verify.accepted_before

\* an accepted request, delivered again after its signature was cleaned out
\* of the cache, is refused for its timestamp
C31_Witness ==
  /\ replay_protection
  /\ last_verify # <<>>
  /\ last_verify.accepted_before
  /\ ~last_verify.in_cache
  /\ ~last_verify.valid
  /\ last_verify.error = "Invalid timestamp"

\* ------------------------------------------------------------------------
\* TokenManager.complete_oauth2_flow of src/12_tokenmanagementsystem.py, with
\* OAuth2Handler.exchange_code_for_token
\* ------------------------------------------------------------------------
MaxFlows == 2

ServiceNames == {"github", "weather", "unknown"}

Codes == {"code_1", "code_2"}

\* the state of a callback and the expected_state argument: None when not
\* passed, or a string
StateValues == {PyNone, PyStr(<<>>), PyStr(<<"s", "1">>), PyStr(<<"s", "2">>)}

\* how the provider answers a token request
TokenResponses == {"token", "http_error"}

\* bool(value) of None or a str
truth(v) == v.t = "str" /\ v.v # <<>>

\* register_oauth2_service("github", ...), register_api_key_service("weather", ...)
InitOauth ==
  /\ services = [name \in {"github", "weather"} |->
                   IF name = "github" THEN "oauth2" ELSE "api_key"]
  /\ token_requests = <<>>
  /\ stored_tokens = {}
  /\ last_flow = <<>>
  /\ BesideOauthIdle

\* lines 467-506: how exchange_code_for_token ends, the token request it
\* sends and the token it stores
exchange_code_for_token(service_name, code, response) ==
  IF service_name \notin DOMAIN services
  THEN [ended |-> "ValueError: Service not found", sent |-> <<>>, stored |-> {}]
  ELSE IF services[service_name] # "oauth2"
  THEN [ended |-> "ValueError: does not use OAuth2", sent |-> <<>>, stored |-> {}]
  ELSE IF response = "http_error"
  THEN [ ended |-> "HTTPError",
         sent |-> <<[service_name |-> service_name, code |-> code]>>, stored |-> {} ]
  ELSE [ ended |-> "returned",
         sent |-> <<[service_name |-> service_name, code |-> code]>>,
         stored |-> {[service_name |-> service_name, code |-> code]} ]

\* line 736: if expected_state and state and expected_state != state
state_mismatch(state_, expected_state) ==
  truth(expected_state) /\ truth(state_) /\ expected_state # state_

\* lines 719-739
complete_oauth2_flow(service_name, code, state_, expected_state, response) ==
  IF state_mismatch(state_, expected_state)
  THEN [ended |-> "ValueError: State mismatch", sent |-> <<>>, stored |-> {}]
  ELSE exchange_code_for_token(service_name, code, response)

\* the manager after the call
Completed(call, flow) ==
  /\ token_requests' = token_requests \o flow.sent
  /\ stored_tokens' = stored_tokens \cup flow.stored
  /\ last_flow' = [ service_name |-> call.service_name, code |-> call.code,
                    state |-> call.state, expected_state |-> call.expected_state,
                    ended |-> flow.ended, sent |-> flow.sent # <<>>,
                    stored |-> flow.stored # {} ]

\* a callback arrives and complete_oauth2_flow is called
CompleteOauth2Flow ==
  /\ Len(token_requests) < MaxFlows
  /\ \E service_name \in ServiceNames, code \in Codes, state_ \in StateValues,
        expected_state \in StateValues, response \in TokenResponses :
       Completed([service_name |-> service_name, code |-> code, state |-> state_,
                  expected_state |-> expected_state],
                 complete_oauth2_flow(service_name, code, state_, expected_state, response))
  /\ UNCHANGED <<services, beside_oauth>>

NextOauth == CompleteOauth2Flow

SpecOauth == InitOauth /\ [][NextOauth]_vars

\* C32: a complete_oauth2_flow call given an expected_state sends a token
\* request and stores a token only when the state of the callback equals
\* expected_state; with any other state, or none, it raises and sends no
\* token request.
C32_StateCheckedBeforeExchange ==
  /\ last_flow # <<>>
  /\ last_flow.expected_state # PyNone
  /\ last_flow.state # last_flow.expected_state
  => /\ last_flow.ended = "ValueError: State mismatch"
     /\ ~last_flow.sent
     /\ ~last_flow.stored

\* ------------------------------------------------------------------------
\* IntegrationService of src/13_listener.py: poll_events puts events on the
\* work queue, the worker threads take them and call process_event.  Each
\* database call is one step of its thread.
\* ------------------------------------------------------------------------
NumWorkers == 2
MaxEnqueued == 3

WorkerIds == 1..NumWorkers

EventIds == {"order-1", "order-2"}

\* the event types with a handler registered by setup_action_handlers, and
\* one without
EventTypes == {"order.created", "order.archived"}

action_handlers == {"order.created"}

NoEvent == [id |-> "", type |-> ""]

\* a worker waiting on the queue
Waiting == [pc |-> "get", event |-> NoEvent, status |-> ""]

\* IntegrationService.__init__ and start (lines 469-492, 760-769)
InitEvents ==
  /\ work_queue = <<>>
  /\ processed_events = [e \in EventIds |-> "absent"]
  /\ workers = [w \in WorkerIds |-> Waiting]
  /\ handled = [e \in EventIds |-> 0]
  /\ enqueued = 0
  /\ BesideEventsIdle

\* lines 720-731: poll_events puts an event on the queue
PutEvent ==
  /\ enqueued < MaxEnqueued
  /\ \E id \in EventIds, type \in EventTypes :
       work_queue' = Append(work_queue, [id |-> id, type |-> type])
  /\ enqueued' = enqueued + 1
  /\ UNCHANGED <<processed_events, workers, handled, beside_events>>

\* line 746: event = self.work_queue.get(timeout=1)
GetEvent(w) ==
  /\ workers[w].pc = "get"
  /\ work_queue # <<>>
  /\ workers' = [workers EXCEPT ![w] = [Waiting EXCEPT !.pc = "check",
                                                      !.event = Head(work_queue)]]
  /\ work_queue' = Tail(work_queue)
  /\ UNCHANGED <<processed_events, handled, enqueued, beside_events>>

\* lines 111-126
is_event_processed(event_id) == processed_events[event_id] # "absent"

\* lines 426-433: an event recorded as processed is skipped, any other goes on
CheckProcessed(w) ==
  /\ workers[w].pc = "check"
  /\ workers' = [workers EXCEPT ![w] =
                   IF is_event_processed(workers[w].event.id)
                   THEN Waiting
                   ELSE [workers[w] EXCEPT !.pc = "find_handler"]]
  /\ UNCHANGED <<work_queue, processed_events, handled, enqueued, beside_events>>

\* lines 435-462: without a handler the event is to be marked skipped; with
\* one, the handler runs and returns or raises
RunHandler(w) ==
  /\ workers[w].pc = "find_handler"
  /\ IF workers[w].event.type \notin action_handlers
     THEN /\ workers' = [workers EXCEPT ![w].pc = "mark", ![w].status = "skipped"]
          /\ UNCHANGED handled
     ELSE /\ handled' = [handled EXCEPT ![workers[w].event.id] = @ + 1]
          /\ \E status \in {"success", "failed"} :
               workers' = [workers EXCEPT ![w].pc = "mark", ![w].status = status]
  /\ UNCHANGED <<work_queue, processed_events, enqueued, beside_events>>

\* lines 91-109: mark_event_processed (INSERT OR REPLACE), then task_done
MarkEventProcessed(w) ==
  /\ workers[w].pc = "mark"
  /\ processed_events' = [processed_events EXCEPT ![workers[w].event.id] = workers[w].status]
  /\ workers' = [workers EXCEPT ![w] = Waiting]
  /\ UNCHANGED <<work_queue, handled, enqueued, beside_events>>

NextEvents ==
  \/ PutEvent
  \/ \E w \in WorkerIds : GetEvent(w)
  \/ \E w \in WorkerIds : CheckProcessed(w)
  \/ \E w \in WorkerIds : RunHandler(w)
  \/ \E w \in WorkerIds : MarkEventProcessed(w)

SpecEvents == InitEvents /\ [][NextEvents]_vars

\* C33: for each event id the registered action handler has run at most
\* once, whatever the worker threads do and however often the event was put
\* on the queue.
C33_HandlerAtMostOncePerEvent == \A e \in EventIds : handled[e] <= 1

\* ------------------------------------------------------------------------
\* TokenBucket of src/14_ratelimiter2.py.  Tokens, rates and seconds are
\* whole multiples of one unit and the arithmetic is exact; consume and
\* get_wait_time run under self.lock, one call at a time.
\* ------------------------------------------------------------------------
MaxCapacity == 3
MaxRate == 2
MaxBucketTime == 3

\* TokenBucket.__init__ (lines 22-34)
InitBucket ==
  /\ capacity \in 1..MaxCapacity
  /\ refill_rate \in 0..MaxRate
  /\ tokens = capacity
  /\ bucket_time = 0
  /\ last_refill = 0
  /\ last_consume = <<>>
  /\ BesideBucketIdle

\* min(a, b)
min(a, b) == IF a <= b THEN a ELSE b

\* lines 38-45: self.tokens after _refill at the time `current`
refilled(held, refilled_at, current) ==
  min(capacity, held + (current - refilled_at) * refill_rate)

\* variant: the bucket must hold more than the tokens asked for
enough_strictly(held, n) == held > n

\* line 63: if self.tokens >= tokens
enough(held, n) == held >= n

\* lines 59-67, on the refilled bucket
consumed(held, n) ==
  IF enough(held, n)
  THEN [returned |-> TRUE, tokens |-> held - n]
  ELSE [returned |-> FALSE, tokens |-> held]

\* the bucket after consume(n) returned
Consumed(held, n, result) ==
  /\ tokens' = result.tokens
  /\ last_refill' = bucket_time
  /\ last_consume' = [ requested |-> n, held |-> held,
                       returned |-> result.returned, left |-> result.tokens ]

\* lines 50-67: consume(n) for a non-negative n
Consume ==
  /\ \E n \in 0..(MaxCapacity + 1) :
       Consumed(refilled(tokens, last_refill, bucket_time), n,
                consumed(refilled(tokens, last_refill, bucket_time), n))
  /\ UNCHANGED <<capacity, refill_rate, bucket_time, beside_bucket>>

\* lines 69-89: get_wait_time refills the bucket and takes nothing
GetWaitTime ==
  /\ tokens' = refilled(tokens, last_refill, bucket_time)
  /\ last_refill' = bucket_time
  /\ UNCHANGED <<capacity, refill_rate, bucket_time, last_consume, beside_bucket>>

\* a second passes
TickBucket ==
  /\ bucket_time < MaxBucketTime
  /\ bucket_time' = bucket_time + 1
  /\ UNCHANGED <<capacity, refill_rate, tokens, last_refill, last_consume, beside_bucket>>

NextBucket == Consume \/ GetWaitTime \/ TickBucket

SpecBucket == InitBucket /\ [][NextBucket]_vars

\* C34: the bucket always holds between 0 and capacity tokens; the last
\* consume(n) returned True exactly when the refilled bucket held at least
\* n tokens, and then left n fewer; when it returned False it left the
\* refilled bucket as it was.
C34_TokensWithinCapacity ==
  /\ 0 <= tokens
  /\ tokens <= capacity
  /\ last_consume # <<>> =>
       /\ last_consume.held <= capacity
       /\ last_consume.returned <=> last_consume.held >= last_consume.requested
       /\ last_consume.returned => last_consume.left = last_consume.held - last_consume.requested
       /\ ~last_consume.returned => last_consume.left = last_consume.held

\* a consume that took every token of a bucket refilled to its capacity
C34_Witness ==
  /\ last_consume # <<>>
  /\ last_consume.returned
  /\ last_consume.requested = capacity
  /\ last_consume.held = capacity
  /\ tokens = 0
  /\ last_refill > 0

====
